---- MODULE Spec2Model ----
(***************************************************************************)
(* A model of the texide tokenization and expansion pipeline:              *)
(*   - ScopedMap           (src/src/scopedmap.rs)                          *)
(*   - RawLexer and Lexer  (src/src/tex/token/lexer.rs)                    *)
(*   - the stream types    (src/src/tex/token/stream.rs, tex/input.rs)     *)
(*   - the expansion driver and the primitive library                      *)
(*                         (src/src/tex/driver.rs, tex/primitive/library)  *)
(* Twenty specifications share the module and its variables:               *)
(*   SpecMap       a ScopedMap under arbitrary operation sequences         *)
(*   SpecLexer     Lexer.next over every short input                       *)
(*   SpecLexerFair SpecLexer with the calls repeated while one is possible *)
(*   SpecJit       Lexer.next with the category table changed in between   *)
(*   SpecPar       Lexer.next over whitespace runs, with two escapes       *)
(*   SpecComment   Lexer.next over longer inputs with comments             *)
(*   SpecInput     peek and next of the InputModule in any order           *)
(*   SpecImut      prepare_imut_peek, imut_peek, next of the InputModule   *)
(*   SpecDriver    the expanded stream read by driver::run and peeked at   *)
(*   SpecPeek      peek and next of the expanded stream in any order       *)
(*   SpecRun       driver::run, one call of expand_next at a time          *)
(*   SpecPushback  expand_next and the unexpanded stream in any order      *)
(*   SpecIf        driver::run over files that start with \if              *)
(*   SpecIdentity  IfF under every binding of names to primitives          *)
(*   SpecMain      driver::run and the exit status of the process          *)
(*   SpecFatal     driver::run over files with invalid characters          *)
(*   SpecCatCode   the conversions between category codes and integers     *)
(*   SpecTwice     the expanded stream of one file read twice              *)
(*   SpecVec       next and peek of a VecStream in any order               *)
(*   SpecTokenEq   the equality of tokens                                  *)
(* Each one holds the variables of the others at their initial values.     *)
(***************************************************************************)
EXTENDS Integers, Sequences, FiniteSets, TLC

VARIABLES
    map,        \* SpecMap: the ScopedMap under test
    ref,        \* SpecMap: the reference model, a stack of full snapshots
    saved,      \* SpecMap: per open scope, what get returned at its begin_scope
    touched,    \* SpecMap: per open scope, the keys insert_global hit inside it
    pinned,     \* SpecMap: per key, the last insert_global not followed by an insert
    opened,     \* SpecMap: number of begin_scope calls minus successful end_scope calls
    last,       \* SpecMap: the last operation and what it returned
    input,          \* SpecLexer: the characters of the input file
    cat_code_map,   \* SpecLexer: the category table, a ScopedMap<char, RawCatCode>
    lexer,          \* SpecLexer: the Lexer reading input
    call,           \* SpecLexer: the last Lexer.next call and its result
    emitted,        \* SpecLexer: the tokens returned so far
    driver,     \* driver specifications: pushback stack, primitive table, root stream
    ret,        \* driver specifications: the last stream operation and its result
    output,     \* SpecDriver: the tokens printed by run
    status,     \* SpecDriver: "running", "done" or "error"
    expect,     \* SpecPushback: the tokens pushed back and not read yet, in order
    peeked,     \* SpecInput: what the peeks since the last next returned
    exit_code,  \* SpecMain: the exit status of the process once it has ended
    f_arg,      \* function specifications: the last call and its arguments
    f_val,      \* function specifications: what the last call returned
    vec_stream  \* SpecVec: the VecStream under test

mapVars == <<map, ref, saved, touched, pinned, opened, last>>

lexerVars == <<input, cat_code_map, lexer, call, emitted>>

driverVars == <<driver, ret, output, status, expect, peeked, exit_code, f_arg, f_val, vec_stream>>

vars == <<mapVars, lexerVars, driverVars>>

(***************************************************************************)
(* Option values: None is the empty sequence, Some(v) the one-element one. *)
(***************************************************************************)
None == << >>

Some(v) == <<v>>

Last(s) == s[Len(s)]

Front(s) == SubSeq(s, 1, Len(s) - 1)

(***************************************************************************)
(* ScopedMap.  key_to_value_stack is a function whose domain is the set of *)
(* keys stored in the hash map; changed_keys_stack has one set per open    *)
(* scope, innermost last.                                                  *)
(***************************************************************************)
new == [key_to_value_stack |-> << >>, changed_keys_stack |-> << >>]

get(m, key) ==
    IF key \notin DOMAIN m.key_to_value_stack
    THEN None
    ELSE LET value_stack == m.key_to_value_stack[key]
         IN  IF value_stack = << >> THEN None ELSE Some(Last(value_stack))

\* insert that always overwrites the top of an existing value stack.
insert_overwrites(m, key, val) ==
    [key_to_value_stack |->
        IF key \in DOMAIN m.key_to_value_stack
        THEN [m.key_to_value_stack EXCEPT ![key] = [@ EXCEPT ![Len(@)] = val]]
        ELSE m.key_to_value_stack @@ (key :> <<val>>),
     changed_keys_stack |->
        IF m.changed_keys_stack = << >> THEN m.changed_keys_stack
        ELSE [m.changed_keys_stack EXCEPT ![Len(m.changed_keys_stack)] = @ \cup {key}]]

insert(m, key, val) ==
    LET kv == m.key_to_value_stack
        ck == m.changed_keys_stack
        new_in_scope ==
            IF ck = << >>
            THEN key \notin DOMAIN kv
            ELSE key \notin Last(ck)
        ck2 == IF ck = << >> THEN ck ELSE [ck EXCEPT ![Len(ck)] = @ \cup {key}]
        kv2 ==
            IF new_in_scope
            THEN IF key \in DOMAIN kv
                 THEN [kv EXCEPT ![key] = Append(@, val)]
                 ELSE kv @@ (key :> <<val>>)
            ELSE [kv EXCEPT ![key] = [@ EXCEPT ![Len(@)] = val]]
    IN  [key_to_value_stack |-> kv2, changed_keys_stack |-> ck2]

\* insert_global without the loop that clears the change-sets.
insert_global_keeps_changed(m, key, val) ==
    [key_to_value_stack |->
        [x \in DOMAIN m.key_to_value_stack \cup {key} |->
            IF x = key THEN <<val>> ELSE m.key_to_value_stack[x]],
     changed_keys_stack |-> m.changed_keys_stack]

\* insert_global that behaves like a plain insert in the current scope.
insert_global_as_insert(m, key, val) == insert(m, key, val)

insert_global(m, key, val) ==
    LET kv == m.key_to_value_stack
        ck == m.changed_keys_stack
    IN  [key_to_value_stack |->
            [x \in DOMAIN kv \cup {key} |-> IF x = key THEN <<val>> ELSE kv[x]],
         changed_keys_stack |-> [i \in 1..Len(ck) |-> ck[i] \ {key}]]

begin_scope(m) ==
    [m EXCEPT !.changed_keys_stack = Append(@, {})]

\* end_scope that reports success also when no scope is open.
end_scope_always_true(m) ==
    IF m.changed_keys_stack = << >>
    THEN [map |-> m, ret |-> TRUE]
    ELSE [map |-> [m EXCEPT !.changed_keys_stack = Front(@)], ret |-> TRUE]

\* The result is the pair of the map after the call and the returned boolean.
\* end_scope that pops the last value and keeps the emptied stack.
end_scope_keeps_empty(m) ==
    LET kv == m.key_to_value_stack
        ck == m.changed_keys_stack
    IN  IF ck = << >>
        THEN [map |-> m, ret |-> FALSE]
        ELSE [map |-> [key_to_value_stack |->
                          [x \in DOMAIN kv |->
                              IF x \in Last(ck) THEN Front(kv[x]) ELSE kv[x]],
                       changed_keys_stack |-> Front(ck)],
              ret |-> TRUE]

end_scope(m) ==
    LET kv == m.key_to_value_stack
        ck == m.changed_keys_stack
    IN  IF ck = << >>
        THEN [map |-> m, ret |-> FALSE]
        ELSE LET changed_keys == Last(ck)
                 removed == {k \in changed_keys : Len(kv[k]) <= 1}
             IN  [map |-> [key_to_value_stack |->
                              [x \in DOMAIN kv \ removed |->
                                  IF x \in changed_keys THEN Front(kv[x]) ELSE kv[x]],
                           changed_keys_stack |-> Front(ck)],
                  ret |-> TRUE]

(***************************************************************************)
(* Category codes.  A RawCatCode is one of the 16 names; Regular(c) is     *)
(* written as the name of the CatCode c.                                   *)
(***************************************************************************)
CatCode ==
    {"BeginGroup", "EndGroup", "MathShift", "AlignmentTab", "Parameter",
     "Superscript", "Subscript", "Space", "Letter", "Other", "Active"}

RawCatCode == CatCode \cup {"Escape", "EndOfLine", "Ignored", "Comment", "Invalid"}

or_default(c) == IF c = None THEN "Other" ELSE c[1]

\* The integers of the type u8.
u8 == 0..255

CatCode_int(c) ==
    CASE c = "BeginGroup" -> 1
      [] c = "EndGroup" -> 2
      [] c = "MathShift" -> 3
      [] c = "AlignmentTab" -> 4
      [] c = "Parameter" -> 6
      [] c = "Superscript" -> 7
      [] c = "Subscript" -> 8
      [] c = "Space" -> 10
      [] c = "Letter" -> 11
      [] c = "Other" -> 12
      [] c = "Active" -> 13

\* CatCode::from_int with the arms of 7 and 8 exchanged.
CatCode_from_int_exchanged(int) ==
    CASE int = 1 -> Some("BeginGroup")
      [] int = 2 -> Some("EndGroup")
      [] int = 3 -> Some("MathShift")
      [] int = 4 -> Some("AlignmentTab")
      [] int = 6 -> Some("Parameter")
      [] int = 8 -> Some("Superscript")
      [] int = 7 -> Some("Subscript")
      [] int = 10 -> Some("Space")
      [] int = 11 -> Some("Letter")
      [] int = 12 -> Some("Other")
      [] int = 13 -> Some("Active")
      [] OTHER -> None

CatCode_from_int(int) ==
    CASE int = 1 -> Some("BeginGroup")
      [] int = 2 -> Some("EndGroup")
      [] int = 3 -> Some("MathShift")
      [] int = 4 -> Some("AlignmentTab")
      [] int = 6 -> Some("Parameter")
      [] int = 7 -> Some("Superscript")
      [] int = 8 -> Some("Subscript")
      [] int = 10 -> Some("Space")
      [] int = 11 -> Some("Letter")
      [] int = 12 -> Some("Other")
      [] int = 13 -> Some("Active")
      [] OTHER -> None

RawCatCode_int(r) ==
    CASE r = "Escape" -> 0
      [] r = "EndOfLine" -> 5
      [] r = "Ignored" -> 9
      [] r = "Comment" -> 14
      [] r = "Invalid" -> 15
      [] OTHER -> CatCode_int(r)

RawCatCode_from_int(int) ==
    CASE int = 0 -> Some("Escape")
      [] int = 5 -> Some("EndOfLine")
      [] int = 9 -> Some("Ignored")
      [] int = 14 -> Some("Comment")
      [] int = 15 -> Some("Invalid")
      [] OTHER -> CatCode_from_int(int)

(***************************************************************************)
(* The category table of the lexer tests: the TeX defaults (restricted to  *)
(* the characters the inputs below use) with 'Z' rebound to Ignored, and   *)
(* one character bound to Invalid.                                         *)
(***************************************************************************)
RECURSIVE extend(_, _)
extend(m, entries) ==
    IF entries = << >> THEN m
    ELSE extend(insert(m, entries[1][1], entries[1][2]), Tail(entries))

set_tex_defaults(m) ==
    extend(m, << <<"\\", "Escape">>, <<"{", "BeginGroup">>, <<"}", "EndGroup">>,
                 <<"\n", "EndOfLine">>, <<"%", "Comment">>, <<" ", "Space">>,
                 <<"a", "Letter">>, <<"b", "Letter">>, <<"e", "Letter">>,
                 <<"f", "Letter">>, <<"i", "Letter">>, <<"m", "Letter">>,
                 <<"t", "Letter">>, <<"Z", "Letter">> >>)

tex_defaults == set_tex_defaults(new)

TestTable == insert(insert(tex_defaults, "Z", "Ignored"), "!", "Invalid")

(***************************************************************************)
(* Tokens.  Characters are one-character strings, names are sequences of   *)
(* characters.  Both variants of Value carry the same fields so that any   *)
(* two values can be compared.                                             *)
(***************************************************************************)
Character(char, code) ==
    [variant |-> "Character", char |-> char, code |-> code, name |-> << >>]

ControlSequence(char, name) ==
    [variant |-> "ControlSequence", char |-> char, code |-> "", name |-> name]

Token(value, source) == [value |-> value, source |-> source]

Line(content, line_number) == [content |-> content, line_number |-> line_number]

Source(line, position) == [line |-> line, position |-> position]

\* The derived PartialEq of Value, Line, Source and Token: field by field.
Value_eq(a, b) ==
    /\ a.variant = b.variant
    /\ a.char = b.char
    /\ a.code = b.code
    /\ a.name = b.name

Line_eq(a, b) == a.content = b.content /\ a.line_number = b.line_number

Source_eq(a, b) == Line_eq(a.line, b.line) /\ a.position = b.position

Token_eq(a, b) == Value_eq(a.value, b.value) /\ Source_eq(a.source, b.source)

(***************************************************************************)
(* Let(v, F) is F applied to v: the value of a call is bound once and used *)
(* by the code that follows it, as a let statement of the source does.     *)
(***************************************************************************)
Let(v, F(_)) == F(v)

(***************************************************************************)
(* RawLexer.  reader is the part of the file not read yet; read_line takes *)
(* the characters up to and including the first newline character.         *)
(***************************************************************************)
RawLexer_new(file) ==
    [reader |-> file,
     current_line_as_chars |-> << >>,
     next_char_index |-> 0,
     current_line |-> Line(<< >>, -1)]

read_line(reader) ==
    LET ends == {i \in 1..Len(reader) : reader[i] = "\n"}
        n == IF ends = {} THEN Len(reader)
             ELSE CHOOSE i \in ends : \A j \in ends : i <= j
    IN  [line |-> SubSeq(reader, 1, n), rest |-> SubSeq(reader, n + 1, Len(reader))]

RawLexer_fill_buffer(rl) ==
    IF rl.next_char_index >= Len(rl.current_line_as_chars)
    THEN Let(read_line(rl.reader), LAMBDA r :
            [reader |-> r.rest,
             current_line_as_chars |-> r.line,
             next_char_index |-> 0,
             current_line |-> Line(r.line, rl.current_line.line_number + 1)])
    ELSE rl

\* peek that classifies with the default table, not with the one passed.
RawLexer_peek_default_table(rl, m) ==
    Let(RawLexer_fill_buffer(rl), LAMBDA f :
        [raw_lexer |-> f,
         token |->
            IF f.next_char_index < Len(f.current_line_as_chars)
            THEN LET char == f.current_line_as_chars[f.next_char_index + 1]
                 IN  Some([code |-> or_default(get(tex_defaults, char)),
                           char |-> char,
                           source |-> Source(f.current_line, f.next_char_index)])
            ELSE None])

\* The raw lexer after the call and the raw token (None at end of file).
RawLexer_peek(rl, m) ==
    Let(RawLexer_fill_buffer(rl), LAMBDA f :
        [raw_lexer |-> f,
         token |->
            IF f.next_char_index < Len(f.current_line_as_chars)
            THEN LET char == f.current_line_as_chars[f.next_char_index + 1]
                 IN  Some([code |-> or_default(get(m, char)),
                           char |-> char,
                           source |-> Source(f.current_line, f.next_char_index)])
            ELSE None])

RawLexer_advance(rl) == [rl EXCEPT !.next_char_index = @ + 1]

RawLexer_next(rl, m) ==
    Let(RawLexer_peek(rl, m), LAMBDA p :
        [raw_lexer |-> RawLexer_advance(p.raw_lexer), token |-> p.token])

(***************************************************************************)
(* Lexer.                                                                  *)
(***************************************************************************)
new_par_control_sequence_name == <<"p", "a", "r">>

Lexer_new(file) ==
    [raw_lexer |-> RawLexer_new(file), trim_next_whitespace |-> FALSE]

NoSource == Source(Line(<< >>, 0), 0)

Ok(token) == [error |-> "", at |-> NoSource, token |-> token]

Err(error, at) == [error |-> error, at |-> at, token |-> None]

RECURSIVE Lexer_consume_whitespace_counts_all(_, _)
\* consume_whitespace that counts every whitespace character as a new line.
Lexer_consume_whitespace_counts_all(rl, m) ==
    Let(RawLexer_peek(rl, m), LAMBDA p :
        IF p.token = None
        THEN [raw_lexer |-> p.raw_lexer, num_new_lines |-> 0]
        ELSE IF p.token[1].code \in {"EndOfLine", "Space"}
        THEN Let(Lexer_consume_whitespace_counts_all(RawLexer_advance(p.raw_lexer), m),
                 LAMBDA r :
                    [raw_lexer |-> r.raw_lexer,
                     num_new_lines |-> r.num_new_lines + 1])
        ELSE [raw_lexer |-> p.raw_lexer, num_new_lines |-> 0])

RECURSIVE Lexer_consume_whitespace_counts_none(_, _)
\* consume_whitespace that consumes the run but counts no new line.
Lexer_consume_whitespace_counts_none(rl, m) ==
    Let(RawLexer_peek(rl, m), LAMBDA p :
        IF p.token = None
        THEN [raw_lexer |-> p.raw_lexer, num_new_lines |-> 0]
        ELSE IF p.token[1].code \in {"EndOfLine", "Space"}
        THEN Lexer_consume_whitespace_counts_none(RawLexer_advance(p.raw_lexer), m)
        ELSE [raw_lexer |-> p.raw_lexer, num_new_lines |-> 0])

RECURSIVE Lexer_consume_whitespace(_, _)
\* The raw lexer after the loop and the number of EndOfLine characters consumed.
Lexer_consume_whitespace(rl, m) ==
    Let(RawLexer_peek(rl, m), LAMBDA p :
        IF p.token = None
        THEN [raw_lexer |-> p.raw_lexer, num_new_lines |-> 0]
        ELSE IF p.token[1].code \in {"EndOfLine", "Space"}
        THEN Let(Lexer_consume_whitespace(RawLexer_advance(p.raw_lexer), m),
                 LAMBDA r :
                    [raw_lexer |-> r.raw_lexer,
                     num_new_lines |-> r.num_new_lines
                        + (IF p.token[1].code = "EndOfLine" THEN 1 ELSE 0)])
        ELSE [raw_lexer |-> p.raw_lexer, num_new_lines |-> 0])

\* read_control_sequence without the loop over the following letters.
Lexer_read_name_first_letter(rl, m, name) == [raw_lexer |-> rl, name |-> name]

RECURSIVE Lexer_read_name(_, _, _)
\* The loop of read_control_sequence that appends the following letters.
Lexer_read_name(rl, m, name) ==
    Let(RawLexer_peek(rl, m), LAMBDA p :
        IF p.token # None /\ p.token[1].code = "Letter"
        THEN Lexer_read_name(RawLexer_advance(p.raw_lexer), m,
                             Append(name, p.token[1].char))
        ELSE [raw_lexer |-> p.raw_lexer, name |-> name])

\* read_control_sequence that takes an escape at the end of the input for
\* the end of the input.
Lexer_read_control_sequence_end_of_input(rl, raw_token, m) ==
    Let(RawLexer_next(rl, m), LAMBDA n :
        IF n.token = None
        THEN [raw_lexer |-> n.raw_lexer, value |-> None, result |-> Ok(None)]
        ELSE IF n.token[1].code = "Letter"
        THEN Let(Lexer_read_name(n.raw_lexer, m, <<n.token[1].char>>), LAMBDA r :
                [raw_lexer |-> r.raw_lexer,
                 value |-> Some(ControlSequence(raw_token.char, r.name)),
                 result |-> Ok(None)])
        ELSE [raw_lexer |-> n.raw_lexer,
              value |-> Some(ControlSequence(raw_token.char, <<n.token[1].char>>)),
              result |-> Ok(None)])

\* The raw lexer after the call and either the value or the error.
Lexer_read_control_sequence(rl, raw_token, m) ==
    Let(RawLexer_next(rl, m), LAMBDA n :
        IF n.token = None
        THEN [raw_lexer |-> n.raw_lexer, value |-> None,
              result |-> Err("MalformedControlSequence", raw_token.source)]
        ELSE IF n.token[1].code = "Letter"
        THEN Let(Lexer_read_name(n.raw_lexer, m, <<n.token[1].char>>), LAMBDA r :
                [raw_lexer |-> r.raw_lexer,
                 value |-> Some(ControlSequence(raw_token.char, r.name)),
                 result |-> Ok(None)])
        ELSE [raw_lexer |-> n.raw_lexer,
              value |-> Some(ControlSequence(raw_token.char, <<n.token[1].char>>)),
              result |-> Ok(None)])

RECURSIVE Lexer_skip_comment_past_end_of_line(_, _)
\* The loop of the Comment arm, made to advance past the next EndOfLine.
Lexer_skip_comment_past_end_of_line(rl, m) ==
    Let(RawLexer_peek(rl, m), LAMBDA p :
        IF p.token = None
        THEN p.raw_lexer
        ELSE IF p.token[1].code = "EndOfLine"
        THEN RawLexer_advance(p.raw_lexer)
        ELSE Lexer_skip_comment_past_end_of_line(RawLexer_advance(p.raw_lexer), m))

RECURSIVE Lexer_skip_comment_and_whitespace(_, _)
\* The loop of the Comment arm, made to go on through the whitespace that
\* follows the comment.
Lexer_skip_comment_and_whitespace(rl, m) ==
    Let(RawLexer_peek(rl, m), LAMBDA p :
        IF p.token = None
        THEN p.raw_lexer
        ELSE IF p.token[1].code = "EndOfLine"
        THEN Lexer_consume_whitespace(p.raw_lexer, m).raw_lexer
        ELSE Lexer_skip_comment_and_whitespace(RawLexer_advance(p.raw_lexer), m))

\* The Comment arm without its loop: nothing after the comment character is
\* discarded.
Lexer_skip_comment_nothing(rl, m) == rl

RECURSIVE Lexer_skip_comment(_, _)
\* The loop of the Comment arm: advance up to, not past, the next EndOfLine.
Lexer_skip_comment(rl, m) ==
    Let(RawLexer_peek(rl, m), LAMBDA p :
        IF p.token = None \/ p.token[1].code = "EndOfLine"
        THEN p.raw_lexer
        ELSE Lexer_skip_comment(RawLexer_advance(p.raw_lexer), m))

\* The same, with the flag always cleared.
Lexer_emit_clears_trim(rl, value, source) ==
    [lexer |-> [raw_lexer |-> rl, trim_next_whitespace |-> FALSE],
     result |-> Ok(Some(Token(value, source)))]

\* An emit that gives the token the place of the last character read, not
\* of the first.
Lexer_emit_at_cursor(rl, value, source) ==
    [lexer |-> [raw_lexer |-> rl,
                trim_next_whitespace |-> value.variant = "ControlSequence"],
     result |-> Ok(Some(Token(value,
                    Source(rl.current_line, rl.next_char_index - 1))))]

\* What Lexer::next does once a value is built: set the flag, wrap the token.
Lexer_emit(rl, value, source) ==
    [lexer |-> [raw_lexer |-> rl,
                trim_next_whitespace |-> value.variant = "ControlSequence"],
     result |-> Ok(Some(Token(value, source)))]

RECURSIVE Lexer_next_skips_invalid(_, _)
\* Lexer.next with the Invalid arm made to drop the character as the
\* Ignored arm does.
Lexer_next_skips_invalid(lx, m) ==
    Let(RawLexer_next(lx.raw_lexer, m), LAMBDA n :
        IF n.token = None
        THEN [lexer |-> [lx EXCEPT !.raw_lexer = n.raw_lexer], result |-> Ok(None)]
        ELSE
        LET raw_token == n.token[1]
        IN  CASE raw_token.code = "Escape" ->
                   Let(Lexer_read_control_sequence(n.raw_lexer, raw_token, m),
                       LAMBDA r :
                         IF r.value = None
                         THEN [lexer |-> [lx EXCEPT !.raw_lexer = r.raw_lexer],
                               result |-> r.result]
                         ELSE Lexer_emit(r.raw_lexer, r.value[1], raw_token.source))
              [] raw_token.code \in {"EndOfLine", "Space"} ->
                   Let(Lexer_consume_whitespace(n.raw_lexer, m), LAMBDA w :
                       LET num_consumed_new_lines ==
                               w.num_new_lines
                                   + (IF raw_token.code = "EndOfLine" THEN 1 ELSE 0)
                       IN  IF num_consumed_new_lines < 2
                           THEN IF lx.trim_next_whitespace
                                THEN Lexer_next_skips_invalid([lx EXCEPT !.raw_lexer = w.raw_lexer], m)
                                ELSE Lexer_emit(w.raw_lexer,
                                                Character(raw_token.char, "Space"),
                                                raw_token.source)
                           ELSE Lexer_emit(w.raw_lexer,
                                           ControlSequence("\\",
                                               new_par_control_sequence_name),
                                           raw_token.source))
              [] raw_token.code = "Comment" ->
                   Lexer_next_skips_invalid([raw_lexer |-> Lexer_skip_comment(n.raw_lexer, m),
                               trim_next_whitespace |-> TRUE], m)
              [] raw_token.code = "Ignored" ->
                   Lexer_next_skips_invalid([lx EXCEPT !.raw_lexer = n.raw_lexer], m)
              [] raw_token.code = "Invalid" ->
                   Lexer_next_skips_invalid([lx EXCEPT !.raw_lexer = n.raw_lexer], m)
              [] OTHER ->
                   Lexer_emit(n.raw_lexer,
                              Character(raw_token.char, raw_token.code),
                              raw_token.source))

RECURSIVE Lexer_next_emits_ignored(_, _)
\* Lexer.next with the Ignored arm made to return the character as a
\* token of category Other.
Lexer_next_emits_ignored(lx, m) ==
    Let(RawLexer_next(lx.raw_lexer, m), LAMBDA n :
        IF n.token = None
        THEN [lexer |-> [lx EXCEPT !.raw_lexer = n.raw_lexer], result |-> Ok(None)]
        ELSE
        LET raw_token == n.token[1]
        IN  CASE raw_token.code = "Escape" ->
                   Let(Lexer_read_control_sequence(n.raw_lexer, raw_token, m),
                       LAMBDA r :
                         IF r.value = None
                         THEN [lexer |-> [lx EXCEPT !.raw_lexer = r.raw_lexer],
                               result |-> r.result]
                         ELSE Lexer_emit(r.raw_lexer, r.value[1], raw_token.source))
              [] raw_token.code \in {"EndOfLine", "Space"} ->
                   Let(Lexer_consume_whitespace(n.raw_lexer, m), LAMBDA w :
                       LET num_consumed_new_lines ==
                               w.num_new_lines
                                   + (IF raw_token.code = "EndOfLine" THEN 1 ELSE 0)
                       IN  IF num_consumed_new_lines < 2
                           THEN IF lx.trim_next_whitespace
                                THEN Lexer_next_emits_ignored([lx EXCEPT !.raw_lexer = w.raw_lexer], m)
                                ELSE Lexer_emit(w.raw_lexer,
                                                Character(raw_token.char, "Space"),
                                                raw_token.source)
                           ELSE Lexer_emit(w.raw_lexer,
                                           ControlSequence("\\",
                                               new_par_control_sequence_name),
                                           raw_token.source))
              [] raw_token.code = "Comment" ->
                   Lexer_next_emits_ignored([raw_lexer |-> Lexer_skip_comment(n.raw_lexer, m),
                               trim_next_whitespace |-> TRUE], m)
              [] raw_token.code = "Ignored" ->
                   Lexer_emit(n.raw_lexer,
                              Character(raw_token.char, "Other"),
                              raw_token.source)
              [] raw_token.code = "Invalid" ->
                   [lexer |-> [lx EXCEPT !.raw_lexer = n.raw_lexer],
                    result |-> Err("InvalidToken", NoSource)]
              [] OTHER ->
                   Lexer_emit(n.raw_lexer,
                              Character(raw_token.char, raw_token.code),
                              raw_token.source))

RECURSIVE Lexer_next_keeps_invalid(_, _)
\* Lexer.next with the Invalid arm made to fail without moving past the
\* character.
Lexer_next_keeps_invalid(lx, m) ==
    Let(RawLexer_next(lx.raw_lexer, m), LAMBDA n :
        IF n.token = None
        THEN [lexer |-> [lx EXCEPT !.raw_lexer = n.raw_lexer], result |-> Ok(None)]
        ELSE
        LET raw_token == n.token[1]
        IN  CASE raw_token.code = "Escape" ->
                   Let(Lexer_read_control_sequence(n.raw_lexer, raw_token, m),
                       LAMBDA r :
                         IF r.value = None
                         THEN [lexer |-> [lx EXCEPT !.raw_lexer = r.raw_lexer],
                               result |-> r.result]
                         ELSE Lexer_emit(r.raw_lexer, r.value[1], raw_token.source))
              [] raw_token.code \in {"EndOfLine", "Space"} ->
                   Let(Lexer_consume_whitespace(n.raw_lexer, m), LAMBDA w :
                       LET num_consumed_new_lines ==
                               w.num_new_lines
                                   + (IF raw_token.code = "EndOfLine" THEN 1 ELSE 0)
                       IN  IF num_consumed_new_lines < 2
                           THEN IF lx.trim_next_whitespace
                                THEN Lexer_next_keeps_invalid([lx EXCEPT !.raw_lexer = w.raw_lexer], m)
                                ELSE Lexer_emit(w.raw_lexer,
                                                Character(raw_token.char, "Space"),
                                                raw_token.source)
                           ELSE Lexer_emit(w.raw_lexer,
                                           ControlSequence("\\",
                                               new_par_control_sequence_name),
                                           raw_token.source))
              [] raw_token.code = "Comment" ->
                   Lexer_next_keeps_invalid([raw_lexer |-> Lexer_skip_comment(n.raw_lexer, m),
                               trim_next_whitespace |-> TRUE], m)
              [] raw_token.code = "Ignored" ->
                   Lexer_next_keeps_invalid([lx EXCEPT !.raw_lexer = n.raw_lexer], m)
              [] raw_token.code = "Invalid" ->
                   [lexer |-> lx,
                    result |-> Err("InvalidToken", NoSource)]
              [] OTHER ->
                   Lexer_emit(n.raw_lexer,
                              Character(raw_token.char, raw_token.code),
                              raw_token.source))

RECURSIVE Lexer_next(_, _)
\* The lexer after the call and the result: a token, None or an error.
Lexer_next(lx, m) ==
    Let(RawLexer_next(lx.raw_lexer, m), LAMBDA n :
        IF n.token = None
        THEN [lexer |-> [lx EXCEPT !.raw_lexer = n.raw_lexer], result |-> Ok(None)]
        ELSE
        LET raw_token == n.token[1]
        IN  CASE raw_token.code = "Escape" ->
                   Let(Lexer_read_control_sequence(n.raw_lexer, raw_token, m),
                       LAMBDA r :
                         IF r.value = None
                         THEN [lexer |-> [lx EXCEPT !.raw_lexer = r.raw_lexer],
                               result |-> r.result]
                         ELSE Lexer_emit(r.raw_lexer, r.value[1], raw_token.source))
              [] raw_token.code \in {"EndOfLine", "Space"} ->
                   Let(Lexer_consume_whitespace(n.raw_lexer, m), LAMBDA w :
                       LET num_consumed_new_lines ==
                               w.num_new_lines
                                   + (IF raw_token.code = "EndOfLine" THEN 1 ELSE 0)
                       IN  IF num_consumed_new_lines < 2
                           THEN IF lx.trim_next_whitespace
                                THEN Lexer_next([lx EXCEPT !.raw_lexer = w.raw_lexer], m)
                                ELSE Lexer_emit(w.raw_lexer,
                                                Character(raw_token.char, "Space"),
                                                raw_token.source)
                           ELSE Lexer_emit(w.raw_lexer,
                                           ControlSequence("\\",
                                               new_par_control_sequence_name),
                                           raw_token.source))
              [] raw_token.code = "Comment" ->
                   Lexer_next([raw_lexer |-> Lexer_skip_comment(n.raw_lexer, m),
                               trim_next_whitespace |-> TRUE], m)
              [] raw_token.code = "Ignored" ->
                   Lexer_next([lx EXCEPT !.raw_lexer = n.raw_lexer], m)
              [] raw_token.code = "Invalid" ->
                   [lexer |-> [lx EXCEPT !.raw_lexer = n.raw_lexer],
                    result |-> Err("InvalidToken", NoSource)]
              [] OTHER ->
                   Lexer_emit(n.raw_lexer,
                              Character(raw_token.char, raw_token.code),
                              raw_token.source))

(***************************************************************************)
(* Streams.  A stream operation yields the stream after the call and a     *)
(* result: Ok(Some(token)), Ok(None) or an error.                          *)
(***************************************************************************)
RECURSIVE Reverse(_)
Reverse(v) == IF v = << >> THEN << >> ELSE Append(Reverse(Tail(v)), Head(v))

\* A VecStream over the vector as given, not reversed.
VecStream_new_unreversed(vec) == [vec |-> vec]

VecStream_new(vec) == [vec |-> Reverse(vec)]

VecStream_next(s) ==
    IF s.vec = << >>
    THEN [stream |-> s, result |-> Ok(None)]
    ELSE [stream |-> [vec |-> Front(s.vec)], result |-> Ok(Some(Last(s.vec)))]

VecStream_imut_peek(s) ==
    Ok(IF s.vec = << >> THEN None ELSE Some(Last(s.vec)))

\* Stream::peek, the default method, for a VecStream: prepare_imut_peek
\* does nothing.
VecStream_peek(s) == [stream |-> s, result |-> VecStream_imut_peek(s)]

RECURSIVE VecStream_yields(_)
\* The tokens successive calls of next on the stream return, in order.
VecStream_yields(s) ==
    Let(VecStream_next(s), LAMBDA n :
        IF n.result.token = None THEN << >>
        ELSE <<n.result.token[1]>> \o VecStream_yields(n.stream))

InputModule_new(table) ==
    [cat_code_map |-> table, lexer |-> None, next_token |-> None]

InputModule_open_file(im, file) == [im EXCEPT !.lexer = Some(Lexer_new(file))]

\* prepare_imut_peek that reads a token also when one is cached.
InputModule_prepare_always_reads(im) ==
    IF im.lexer # None
    THEN Let(Lexer_next(im.lexer[1], im.cat_code_map), LAMBDA r :
            IF r.result.error # ""
            THEN [stream |-> [im EXCEPT !.lexer = Some(r.lexer)],
                  result |-> r.result]
            ELSE [stream |-> [im EXCEPT !.lexer = Some(r.lexer),
                                        !.next_token = r.result.token],
                  result |-> Ok(None)])
    ELSE [stream |-> im, result |-> Ok(None)]

InputModule_prepare_imut_peek(im) ==
    IF im.next_token = None /\ im.lexer # None
    THEN Let(Lexer_next(im.lexer[1], im.cat_code_map), LAMBDA r :
            IF r.result.error # ""
            THEN [stream |-> [im EXCEPT !.lexer = Some(r.lexer)],
                  result |-> r.result]
            ELSE [stream |-> [im EXCEPT !.lexer = Some(r.lexer),
                                        !.next_token = r.result.token],
                  result |-> Ok(None)])
    ELSE [stream |-> im, result |-> Ok(None)]

InputModule_imut_peek(im) == Ok(im.next_token)

InputModule_next(im) ==
    Let(InputModule_prepare_imut_peek(im), LAMBDA p :
        IF p.result.error # "" THEN p
        ELSE [stream |-> [p.stream EXCEPT !.next_token = None],
              result |-> Ok(p.stream.next_token)])

\* Stream::peek, the default method, for the InputModule.
InputModule_peek(im) ==
    Let(InputModule_prepare_imut_peek(im), LAMBDA p :
        IF p.result.error # "" THEN p
        ELSE [stream |-> p.stream, result |-> InputModule_imut_peek(p.stream)])

(***************************************************************************)
(* The driver.  Its state d holds the pushback stack (top last), the       *)
(* primitive table and the root stream, the InputModule of the state.      *)
(***************************************************************************)
\* prepare_imut_peek that leaves an exhausted stream on top of the stack.
UnexpandedStream_prepare_keeps_exhausted(d) ==
    IF d.stack = << >>
    THEN Let(InputModule_prepare_imut_peek(d.input_module), LAMBDA p :
            [driver |-> [d EXCEPT !.input_module = p.stream], result |-> p.result])
    ELSE [driver |-> d, result |-> Ok(None)]

RECURSIVE UnexpandedStream_prepare_imut_peek(_)
UnexpandedStream_prepare_imut_peek(d) ==
    IF d.stack = << >>
    THEN Let(InputModule_prepare_imut_peek(d.input_module), LAMBDA p :
            [driver |-> [d EXCEPT !.input_module = p.stream], result |-> p.result])
    ELSE IF VecStream_imut_peek(Last(d.stack)).token = None
    THEN UnexpandedStream_prepare_imut_peek([d EXCEPT !.stack = Front(@)])
    ELSE [driver |-> d, result |-> Ok(None)]

UnexpandedStream_imut_peek(d) ==
    IF d.stack = << >>
    THEN InputModule_imut_peek(d.input_module)
    ELSE VecStream_imut_peek(Last(d.stack))

UnexpandedStream_next(d) ==
    Let(UnexpandedStream_prepare_imut_peek(d), LAMBDA p :
        IF p.result.error # "" THEN p
        ELSE IF p.driver.stack = << >>
        THEN Let(InputModule_next(p.driver.input_module), LAMBDA n :
                [driver |-> [p.driver EXCEPT !.input_module = n.stream],
                 result |-> n.result])
        ELSE Let(VecStream_next(Last(p.driver.stack)), LAMBDA n :
                [driver |-> [p.driver EXCEPT !.stack[Len(p.driver.stack)] = n.stream],
                 result |-> n.result]))

\* Stream::peek, the default method, for the unexpanded stream.
UnexpandedStream_peek(d) ==
    Let(UnexpandedStream_prepare_imut_peek(d), LAMBDA p :
        IF p.result.error # "" THEN p
        ELSE [driver |-> p.driver, result |-> UnexpandedStream_imut_peek(p.driver)])

(***************************************************************************)
(* Primitives: the function called and the identity tag (id).              *)
(***************************************************************************)
get_if == [call_fn |-> "IfF", id |-> Some("Else")]

get_else == [call_fn |-> "Else", id |-> Some("Else")]

get_fi == [call_fn |-> "Fi", id |-> None]

get_texide == [call_fn |-> "texide", id |-> None]

\* A primitive from outside the library: a macro whose replacement is the
\* control sequence \t followed by the letter b.
get_macro == [call_fn |-> "macro", id |-> None]

new_letter(c) == Token(Character(c, "Letter"), NoSource)

get_expansion_primitive(d, name) == get(d.primitives, name)

RECURSIVE IfF(_)
\* The driver after the call, the result and the replacement stream.
IfF(d) ==
    Let(UnexpandedStream_next(d), LAMBDA n :
        IF n.result.error # ""
        THEN [driver |-> n.driver, result |-> n.result, stream |-> VecStream_new(<< >>)]
        ELSE IF n.result.token = None
        THEN [driver |-> n.driver, result |-> Ok(None), stream |-> VecStream_new(<< >>)]
        ELSE LET value == n.result.token[1].value
                 c == IF value.variant = "ControlSequence"
                      THEN get_expansion_primitive(n.driver, value.name)
                      ELSE None
             IN  IF c # None /\ c[1].id = Some("Else")
                 THEN [driver |-> n.driver, result |-> Ok(None),
                       stream |-> VecStream_new(<< >>)]
                 ELSE IfF(n.driver))

\* A replacement for \texide that is the control sequence \t again.
texide_command_recreates ==
    VecStream_new(<<Token(ControlSequence("\\", <<"t">>), NoSource)>>)

texide_command ==
    VecStream_new(<<new_letter("T"), new_letter("e"), new_letter("x"),
                    new_letter("i"), new_letter("d"), new_letter("e")>>)

macro_command ==
    VecStream_new(<<Token(ControlSequence("\\", <<"t">>), NoSource), new_letter("b")>>)

\* call with a \texide that takes a token from its input.
ExpansionPrimitive_call_texide_reads(primitive, d) ==
    CASE primitive.call_fn = "IfF" -> IfF(d)
      [] primitive.call_fn = "texide" ->
            [driver |-> UnexpandedStream_next(d).driver, result |-> Ok(None),
             stream |-> texide_command]
      [] primitive.call_fn = "macro" ->
            [driver |-> d, result |-> Ok(None), stream |-> macro_command]
      [] OTHER ->
            [driver |-> d, result |-> Ok(None), stream |-> VecStream_new(<< >>)]

ExpansionPrimitive_call(primitive, d) ==
    CASE primitive.call_fn = "IfF" -> IfF(d)
      [] primitive.call_fn = "texide" ->
            [driver |-> d, result |-> Ok(None), stream |-> texide_command]
      [] primitive.call_fn = "macro" ->
            [driver |-> d, result |-> Ok(None), stream |-> macro_command]
      [] OTHER ->
            [driver |-> d, result |-> Ok(None), stream |-> VecStream_new(<< >>)]

\* A push that puts the stream below the streams already on the stack.
stack_push_below(stack, pushed) == <<pushed>> \o stack

\* Vec::push on the pushback stack: the top of the stack is its last element.
stack_push(stack, pushed) == Append(stack, pushed)

\* No expansion: the result of expand_next when it returns Ok(false) or fails.
NotExpanded(d, result) ==
    [driver |-> d, result |-> result, expanded |-> FALSE,
     head |-> None, replacement |-> << >>]

\* The command the head token names: None for no token, a character or a
\* control sequence the primitive table does not bind.
expand_next_command(d, token) ==
    IF token = None THEN None
    ELSE IF token[1].value.variant = "Character" THEN None
    ELSE get(d.primitives, token[1].value.name)

\* expand_next that takes the head token off the stream also when it
\* names no command.
expand_next_consumes_head(d) ==
    Let(UnexpandedStream_prepare_imut_peek(d), LAMBDA p :
        IF p.result.error # "" THEN NotExpanded(p.driver, p.result)
        ELSE
        Let(expand_next_command(p.driver, UnexpandedStream_imut_peek(p.driver).token),
            LAMBDA command :
              Let(UnexpandedStream_next(p.driver), LAMBDA c :
                  IF c.result.error # "" THEN NotExpanded(c.driver, c.result)
                  ELSE IF command = None THEN NotExpanded(c.driver, Ok(None))
                  ELSE
                  Let(ExpansionPrimitive_call(command[1], c.driver), LAMBDA r :
                      IF r.result.error # "" THEN NotExpanded(r.driver, r.result)
                      ELSE [driver |-> [r.driver EXCEPT
                                          !.stack = stack_push(@, r.stream)],
                            result |-> Ok(None), expanded |-> TRUE,
                            head |-> c.result.token,
                            replacement |-> VecStream_yields(r.stream)]))))

\* The driver after the call, the error if any, whether an expansion was
\* performed and, if so, the head token consumed and the replacement pushed.
expand_next(d) ==
    Let(UnexpandedStream_prepare_imut_peek(d), LAMBDA p :
        IF p.result.error # "" THEN NotExpanded(p.driver, p.result)
        ELSE
        Let(expand_next_command(p.driver, UnexpandedStream_imut_peek(p.driver).token),
            LAMBDA command :
              IF command = None THEN NotExpanded(p.driver, Ok(None))
              ELSE
              Let(UnexpandedStream_next(p.driver), LAMBDA c :
                  IF c.result.error # "" THEN NotExpanded(c.driver, c.result)
                  ELSE
                  Let(ExpansionPrimitive_call(command[1], c.driver), LAMBDA r :
                      IF r.result.error # "" THEN NotExpanded(r.driver, r.result)
                      ELSE [driver |-> [r.driver EXCEPT
                                          !.stack = stack_push(@, r.stream)],
                            result |-> Ok(None), expanded |-> TRUE,
                            head |-> c.result.token,
                            replacement |-> VecStream_yields(r.stream)]))))

\* next that calls expand_next once instead of until it returns false.
ExpandedStream_next_once(d) ==
    Let(expand_next(d), LAMBDA e :
        IF e.result.error # "" THEN [driver |-> e.driver, result |-> e.result]
        ELSE UnexpandedStream_next(e.driver))

RECURSIVE ExpandedStream_next(_)
ExpandedStream_next(d) ==
    Let(expand_next(d), LAMBDA e :
        IF e.result.error # "" THEN [driver |-> e.driver, result |-> e.result]
        ELSE IF e.expanded THEN ExpandedStream_next(e.driver)
        ELSE UnexpandedStream_next(e.driver))

\* prepare_imut_peek that calls expand_next once instead of until it
\* returns false.
ExpandedStream_prepare_once(d) ==
    Let(expand_next(d), LAMBDA e :
        IF e.result.error # "" THEN [driver |-> e.driver, result |-> e.result]
        ELSE UnexpandedStream_prepare_imut_peek(e.driver))

RECURSIVE ExpandedStream_prepare_imut_peek(_)
ExpandedStream_prepare_imut_peek(d) ==
    Let(expand_next(d), LAMBDA e :
        IF e.result.error # "" THEN [driver |-> e.driver, result |-> e.result]
        ELSE IF e.expanded THEN ExpandedStream_prepare_imut_peek(e.driver)
        ELSE UnexpandedStream_prepare_imut_peek(e.driver))

ExpandedStream_imut_peek(d) == UnexpandedStream_imut_peek(d)

\* A peek that takes the token out of the stream, as next does.
ExpandedStream_peek_consumes(d) == ExpandedStream_next(d)

\* Stream::peek, the default method, for the expanded stream.
ExpandedStream_peek(d) ==
    Let(ExpandedStream_prepare_imut_peek(d), LAMBDA p :
        IF p.result.error # "" THEN p
        ELSE [driver |-> p.driver, result |-> ExpandedStream_imut_peek(p.driver)])

(***************************************************************************)
(* The state main.rs builds before it calls driver::run: the primitives    *)
(* bound to one-letter names, the default category table (for SpecInput,   *)
(* the table of the lexer tests) and the input file opened.                *)
(***************************************************************************)
PrimitiveTable ==
    insert(insert(insert(insert(insert(new,
        <<"i">>, get_if), <<"e">>, get_else), <<"f">>, get_fi),
        <<"t">>, get_texide), <<"m">>, get_macro)

NewDriver(file, table) ==
    [stack |-> << >>,
     primitives |-> PrimitiveTable,
     input_module |-> InputModule_open_file(InputModule_new(table), file)]

NoRet ==
    [op |-> "new", result |-> Ok(None), expanded |-> FALSE,
     read |-> None, expected |-> None, prev |-> None]

\* The variables of the driver specifications while another one runs.
DriverIdle ==
    /\ driver = NewDriver(<< >>, new)
    /\ ret = NoRet
    /\ output = << >>
    /\ status = "running"
    /\ expect = << >>
    /\ peeked = None
    /\ exit_code = None
    /\ f_arg = None
    /\ f_val = None
    /\ vec_stream = VecStream_new(<< >>)

\* The variables of SpecLexer while another specification runs.
NoCall == [from |-> 0, to |-> 0, trim |-> FALSE, result |-> Ok(None), count |-> 0]

LexerIdle ==
    /\ input = << >>
    /\ cat_code_map = new
    /\ lexer = Lexer_new(<< >>)
    /\ call = NoCall
    /\ emitted = << >>

(***************************************************************************)
(* SpecMap: every sequence of insert, insert_global, begin_scope and       *)
(* end_scope on one ScopedMap, next to the reference model of the property *)
(* tests (a stack of full snapshots).                                      *)
(***************************************************************************)
MaxDepth == 2

Keys == {"j", "k"}

\* Values are opaque to the map: two are enough to tell a value from the one
\* it shadows or replaces.
Vals == {"black", "gray"}

\* What get returns for every key: the visible state of the map.
Visible(m) == [k \in Keys |-> get(m, k)]

NoOp ==
    [op |-> "new", ret |-> TRUE, before |-> Visible(new),
     saved |-> << >>, touched |-> {}, changed |-> {}, opened |-> 0]

MapIdle ==
    /\ map = new
    /\ ref = << >>
    /\ saved = << >>
    /\ touched = << >>
    /\ pinned = << >>
    /\ opened = 0
    /\ last = NoOp

InitMap ==
    /\ LexerIdle
    /\ DriverIdle
    /\ map = new
    /\ ref = <<[k \in Keys |-> None]>>
    /\ saved = << >>
    /\ touched = << >>
    /\ pinned = [k \in Keys |-> None]
    /\ opened = 0
    /\ last = NoOp

Insert(key, val) ==
    /\ UNCHANGED <<lexerVars, driverVars>>
    /\ map' = insert(map, key, val)
    /\ ref' = [ref EXCEPT ![Len(ref)] = [@ EXCEPT ![key] = Some(val)]]
    /\ pinned' = [pinned EXCEPT ![key] = None]
    /\ last' = [NoOp EXCEPT !.op = "insert"]
    /\ UNCHANGED <<saved, touched, opened>>

InsertGlobal(key, val) ==
    /\ UNCHANGED <<lexerVars, driverVars>>
    /\ map' = insert_global(map, key, val)
    /\ ref' = [i \in DOMAIN ref |-> [ref[i] EXCEPT ![key] = Some(val)]]
    /\ touched' = [i \in DOMAIN touched |-> touched[i] \cup {key}]
    /\ pinned' = [pinned EXCEPT ![key] =
                    Some([val |-> val,
                          shadowed |-> \E i \in DOMAIN map.changed_keys_stack :
                                          key \in map.changed_keys_stack[i]])]
    /\ last' = [NoOp EXCEPT !.op = "insert_global"]
    /\ UNCHANGED <<saved, opened>>

BeginScope ==
    /\ UNCHANGED <<lexerVars, driverVars>>
    /\ Len(map.changed_keys_stack) < MaxDepth
    /\ opened < MaxDepth
    /\ map' = begin_scope(map)
    /\ ref' = Append(ref, Last(ref))
    /\ saved' = Append(saved, Visible(map))
    /\ touched' = Append(touched, {})
    /\ opened' = opened + 1
    /\ last' = [NoOp EXCEPT !.op = "begin_scope"]
    /\ UNCHANGED pinned

EndScope ==
    LET r == end_scope(map)
        popped == r.ret /\ saved # << >>
    IN  /\ map' = r.map
        /\ ref' = IF r.ret /\ Len(ref) > 1 THEN Front(ref) ELSE ref
        /\ saved' = IF popped THEN Front(saved) ELSE saved
        /\ touched' = IF popped THEN Front(touched) ELSE touched
        /\ opened' = IF r.ret THEN opened - 1 ELSE opened
        /\ last' = [NoOp EXCEPT !.op = "end_scope", !.ret = r.ret,
                        !.before = Visible(map), !.opened = opened,
                        !.saved = IF popped THEN Last(saved) ELSE << >>,
                        !.touched = IF popped THEN Last(touched) ELSE {},
                        !.changed = IF map.changed_keys_stack = << >> THEN {}
                                    ELSE Last(map.changed_keys_stack)]
        /\ UNCHANGED <<pinned, lexerVars, driverVars>>

NextMap ==
    \/ \E key \in Keys, val \in Vals : Insert(key, val)
    \/ \E key \in Keys, val \in Vals : InsertGlobal(key, val)
    \/ BeginScope
    \/ EndScope

SpecMap == InitMap /\ [][NextMap]_vars

(***************************************************************************)
(* C1. ScopedMap balance: after an end_scope that matches a begin_scope,   *)
(* get(k) returns, for every key k that no insert_global hit inside the    *)
(* pair, exactly what it returned just before that begin_scope (None for   *)
(* keys that were absent).                                                 *)
(***************************************************************************)
C1_Balance ==
    (last.op = "end_scope" /\ last.ret) =>
        \A k \in Keys \ last.touched : get(map, k) = last.saved[k]

\* An end_scope that really rolled back an insert made inside the pair.
C1_Witness ==
    /\ last.op = "end_scope" /\ last.ret
    /\ \E k \in last.changed \ last.touched :
          /\ last.before[k] # last.saved[k]
          /\ get(map, k) = last.saved[k]

(***************************************************************************)
(* C2. After every step of every trace, get(k) agrees for every key with   *)
(* the reference model: a stack of full snapshots where begin_scope copies *)
(* the top, end_scope drops it, insert writes the top and insert_global    *)
(* writes every snapshot.                                                  *)
(***************************************************************************)
C2_AgreesWithReference ==
    \A k \in Keys : get(map, k) = Last(ref)[k]

\* Two nested scopes whose snapshots differ from each other and from the
\* global one on some key.
C2_Witness ==
    /\ Len(ref) = 3
    /\ \E k \in Keys : ref[1][k] # ref[2][k] /\ ref[2][k] # ref[3][k]
    /\ \E k \in Keys : ref[1][k] = None /\ ref[3][k] # None

(***************************************************************************)
(* C3. After insert_global(k, v), with any number of open scopes, get(k)   *)
(* is v at once and stays v through every following end_scope down to the  *)
(* global scope as long as k is not inserted again, also when k had been   *)
(* inserted in open scopes before.                                         *)
(***************************************************************************)
C3_GlobalNeverRolledBack ==
    \A k \in Keys : pinned[k] # None => get(map, k) = Some(pinned[k][1].val)

\* Back at the global scope after an end_scope of a scope in which k, already
\* inserted in an open scope, was set by insert_global.
C3_Witness ==
    /\ last.op = "end_scope" /\ last.ret
    /\ map.changed_keys_stack = << >>
    /\ \E k \in last.touched :
          /\ pinned[k] # None
          /\ pinned[k][1].shadowed
          /\ last.saved[k] # Some(pinned[k][1].val)

(***************************************************************************)
(* C4. end_scope returns false if and only if no scope is open (as many    *)
(* successful end_scope calls as begin_scope calls so far), and then the   *)
(* map is unchanged: every get(k) returns what it returned before.         *)
(***************************************************************************)
C4_EndScopeFalseIffNoScope ==
    last.op = "end_scope" =>
        /\ (last.ret = FALSE) <=> (last.opened = 0)
        /\ (last.ret = FALSE) => Visible(map) = last.before

\* An end_scope with no scope open, on a map that holds a value.
C4_Witness ==
    /\ last.op = "end_scope" /\ last.ret = FALSE
    /\ \E k \in Keys : get(map, k) # None

(***************************************************************************)
(* SpecLexer: Lexer.next called again and again on every input of at most  *)
(* MaxLen characters, under the table of the tests.                        *)
(***************************************************************************)
MaxLen == 4

MaxEofReads == 2

Alphabet == {"\\", "a", "{", " ", "\n", "%", "Z", "!"}

Inputs(alphabet) == UNION {[1..n -> alphabet] : n \in 0..MaxLen}

\* Number of characters of the input the raw lexer has moved past.
Consumed(lx) ==
    LET rl == lx.raw_lexer
        len == Len(rl.current_line_as_chars)
    IN  Len(input) - Len(rl.reader) - len
            + (IF rl.next_char_index < len THEN rl.next_char_index ELSE len)

InitLexer ==
    /\ MapIdle
    /\ DriverIdle
    /\ input \in Inputs(Alphabet)
    /\ cat_code_map = TestTable
    /\ lexer = Lexer_new(input)
    /\ call = NoCall
    /\ emitted = << >>

LexerNext ==
    /\ lexer.raw_lexer.current_line.line_number < Len(input) + MaxEofReads
    /\ \E r \in {Lexer_next(lexer, cat_code_map)} :
           /\ lexer' = r.lexer
           /\ call' = [from |-> Consumed(lexer), to |-> Consumed(r.lexer),
                       trim |-> lexer.trim_next_whitespace,
                       result |-> r.result, count |-> 1]
           /\ emitted' = IF r.result.token = None THEN emitted
                         ELSE Append(emitted, r.result.token[1])
    /\ UNCHANGED <<input, cat_code_map, mapVars, driverVars>>

NextLexer == LexerNext

SpecLexer == InitLexer /\ [][NextLexer]_vars

(***************************************************************************)
(* SpecJit: as SpecLexer, over a smaller alphabet, with the category of    *)
(* the character 'a' changed between Lexer.next calls.                     *)
(***************************************************************************)
JitAlphabet == {"\\", "a", "b", " ", "\n"}

JitCodes == {"Letter", "Space", "Other"}

InitJit ==
    /\ MapIdle
    /\ DriverIdle
    /\ input \in Inputs(JitAlphabet)
    /\ cat_code_map = tex_defaults
    /\ lexer = Lexer_new(input)
    /\ call = NoCall
    /\ emitted = << >>

SetCatCode(code) ==
    /\ get(cat_code_map, "a") # Some(code)
    /\ cat_code_map' = insert(cat_code_map, "a", code)
    /\ call' = [call EXCEPT !.count = 0]
    /\ UNCHANGED <<input, lexer, emitted, mapVars, driverVars>>

NextJit ==
    \/ LexerNext
    \/ \E code \in JitCodes : SetCatCode(code)

SpecJit == InitJit /\ [][NextJit]_vars

(***************************************************************************)
(* SpecDriver: the expanded stream over every input made of at most        *)
(* MaxWords words, read by the loop of driver::run (Run) and peeked at by  *)
(* a consumer (Peek).                                                      *)
(***************************************************************************)
MaxWords == 3

Words ==
    {<<"\\", "i">>, <<"\\", "e">>, <<"\\", "f">>, <<"\\", "t">>, <<"\\", "m">>,
     <<"\\">>, <<"a">>, <<" ">>}

RECURSIVE Concat(_)
Concat(ws) == IF ws = << >> THEN << >> ELSE Head(ws) \o Concat(Tail(ws))

WordInputs == {Concat(ws) : ws \in UNION {[1..n -> Words] : n \in 0..MaxWords}}

\* Calls at the end of the file go on reading it: they are cut off after
\* MaxEofReads reads.
MayRead ==
    driver.input_module.lexer[1].raw_lexer.current_line.line_number
        < Len(input) + MaxEofReads

InitDriver ==
    /\ MapIdle
    /\ input \in WordInputs
    /\ cat_code_map = new
    /\ lexer = Lexer_new(<< >>)
    /\ call = NoCall
    /\ emitted = << >>
    /\ driver = NewDriver(input, tex_defaults)
    /\ ret = NoRet
    /\ output = << >>
    /\ status = "running"
    /\ expect = << >>
    /\ peeked = None
    /\ exit_code = None
    /\ f_arg = None
    /\ f_val = None
    /\ vec_stream = VecStream_new(<< >>)

\* An iteration of the loop of run that is also made after an error.
Run_after_error ==
    /\ status \in {"running", "error"}
    /\ \E r \in {ExpandedStream_next(driver)} :
           /\ driver' = r.driver
           /\ ret' = [NoRet EXCEPT !.op = "next", !.result = r.result]
           /\ status' = IF r.result.error # "" THEN "error"
                        ELSE IF r.result.token = None THEN "done"
                        ELSE "running"
           /\ output' = IF r.result.token = None THEN output
                        ELSE Append(output, r.result.token[1])
    /\ UNCHANGED <<expect, peeked, exit_code, f_arg, f_val, vec_stream, mapVars, lexerVars>>

Run ==
    /\ status = "running"
    /\ \E r \in {ExpandedStream_next(driver)} :
           /\ driver' = r.driver
           /\ ret' = [NoRet EXCEPT !.op = "next", !.result = r.result]
           /\ status' = IF r.result.error # "" THEN "error"
                        ELSE IF r.result.token = None THEN "done"
                        ELSE "running"
           /\ output' = IF r.result.token = None THEN output
                        ELSE Append(output, r.result.token[1])
    /\ UNCHANGED <<expect, peeked, exit_code, f_arg, f_val, vec_stream, mapVars, lexerVars>>

Peek ==
    /\ status = "running"
    /\ MayRead
    /\ \E r \in {ExpandedStream_peek(driver)} :
           /\ driver' = r.driver
           /\ ret' = [NoRet EXCEPT !.op = "peek", !.result = r.result]
    /\ UNCHANGED <<output, status, expect, peeked, exit_code, f_arg, f_val, vec_stream, mapVars, lexerVars>>

NextDriver == Run \/ Peek

SpecDriver == InitDriver /\ [][NextDriver]_vars

(***************************************************************************)
(* SpecPushback: the fine-control interface of Input, expand_next and the  *)
(* unexpanded stream, called in any order over the same inputs.  expect is *)
(* the order the claim prescribes: a replacement goes in front of          *)
(* everything pushed back before and not read yet.                         *)
(***************************************************************************)
ExpandNext ==
    /\ MayRead
    /\ \E e \in {expand_next(driver)} :
        LET rest == IF expect = << >> THEN << >> ELSE Tail(expect)
        IN /\ driver' = e.driver
           /\ expect' = IF e.expanded THEN e.replacement \o rest ELSE expect
           /\ ret' = [NoRet EXCEPT
                        !.op = "expand_next", !.result = e.result,
                        !.expanded = e.expanded, !.read = e.head,
                        !.expected = IF e.expanded /\ expect # << >>
                                     THEN Some(Head(expect)) ELSE None,
                        !.prev = ret.read]
    /\ UNCHANGED <<output, status, peeked, exit_code, f_arg, f_val, vec_stream, mapVars, lexerVars>>

UnexpandedNext ==
    /\ MayRead
    /\ \E n \in {UnexpandedStream_next(driver)} :
           /\ driver' = n.driver
           /\ expect' = IF expect = << >> THEN << >> ELSE Tail(expect)
           /\ ret' = [NoRet EXCEPT
                        !.op = "unexpanded_next", !.result = n.result,
                        !.read = n.result.token,
                        !.expected = IF expect # << >> THEN Some(Head(expect)) ELSE None,
                        !.prev = ret.read]
    /\ UNCHANGED <<output, status, peeked, exit_code, f_arg, f_val, vec_stream, mapVars, lexerVars>>

NextPushback == ExpandNext \/ UnexpandedNext

SpecPushback == InitDriver /\ [][NextPushback]_vars

(***************************************************************************)
(* SpecInput: the lexer-backed stream, InputModule, peeked at and read in  *)
(* any order over every input of at most MaxLen characters.                *)
(***************************************************************************)
InitInput ==
    /\ MapIdle
    /\ input \in Inputs(Alphabet)
    /\ cat_code_map = new
    /\ lexer = Lexer_new(<< >>)
    /\ call = NoCall
    /\ emitted = << >>
    /\ driver = NewDriver(input, TestTable)
    /\ ret = NoRet
    /\ output = << >>
    /\ status = "running"
    /\ expect = << >>
    /\ peeked = None
    /\ exit_code = None
    /\ f_arg = None
    /\ f_val = None
    /\ vec_stream = VecStream_new(<< >>)

InputPeek ==
    /\ MayRead
    /\ \E r \in {InputModule_peek(driver.input_module)} :
           /\ driver' = [driver EXCEPT !.input_module = r.stream]
           /\ ret' = [NoRet EXCEPT !.op = "peek", !.result = r.result,
                                   !.expected = peeked]
           /\ peeked' = IF r.result.error # "" THEN None
                        ELSE Some([token |-> r.result.token,
                                   again |-> peeked # None])
    /\ UNCHANGED <<output, status, expect, exit_code, f_arg, f_val, vec_stream, mapVars, lexerVars>>

InputNext ==
    /\ MayRead
    /\ \E r \in {InputModule_next(driver.input_module)} :
           /\ driver' = [driver EXCEPT !.input_module = r.stream]
           /\ ret' = [NoRet EXCEPT !.op = "next", !.result = r.result,
                                   !.expected = peeked]
           /\ peeked' = None
    /\ UNCHANGED <<output, status, expect, exit_code, f_arg, f_val, vec_stream, mapVars, lexerVars>>

NextInput == InputPeek \/ InputNext

SpecInput == InitInput /\ [][NextInput]_vars

(***************************************************************************)
(* The input seen as one flat sequence of characters, classified by the    *)
(* current table.                                                          *)
(***************************************************************************)
Cat(i) == or_default(get(cat_code_map, input[i]))

IsWhitespace(i) == Cat(i) \in {"Space", "EndOfLine"}

\* The last index of the maximal whitespace run that starts at index i.
RunEnd(i) ==
    CHOOSE j \in i..Len(input) :
        /\ \A k \in i..j : IsWhitespace(k)
        /\ j = Len(input) \/ ~IsWhitespace(j + 1)

NewLines(i, j) == Cardinality({k \in i..j : Cat(k) = "EndOfLine"})

\* Index in the input of the character a source location points at.
FlatPos(source) ==
    LET ends == {i \in 1..Len(input) : input[i] = "\n"}
        n == source.line.line_number
        start == IF n = 0 THEN 0
                 ELSE CHOOSE i \in ends : Cardinality({j \in ends : j <= i}) = n
    IN  start + source.position + 1

\* Index i lies in a comment: after a Comment character, with no EndOfLine
\* character between the two.
InComment(i, from) ==
    \E c \in (from + 1)..i :
        /\ Cat(c) = "Comment"
        /\ \A k \in (c + 1)..i : Cat(k) # "EndOfLine"

Skipped(i, from) == IsWhitespace(i) \/ Cat(i) = "Ignored" \/ InComment(i, from)

Returned == call.count = 1 /\ call.result.token # None

ReturnedValue == call.result.token[1].value

ReturnedAt == FlatPos(call.result.token[1].source)

\* The tokens returned before the last call.
Before == IF call.result.token # None THEN Front(emitted) ELSE emitted

(***************************************************************************)
(* C7. Just-in-time classification: whatever the table was during earlier  *)
(* calls, a Lexer.next call classifies every character it reads, the       *)
(* lookahead of the previous call included, with the table it is given:    *)
(* a returned character carries its current category, a control sequence   *)
(* starts at a current Escape character and takes the current Letters, and *)
(* every character dropped is currently whitespace, Ignored or commented.  *)
(***************************************************************************)
C7_JustInTime ==
    Returned =>
        /\ ReturnedAt \in (call.from + 1)..call.to
        /\ \A i \in (call.from + 1)..(ReturnedAt - 1) : Skipped(i, call.from)
        /\ CASE ReturnedValue.variant = "Character" /\ ReturnedValue.code # "Space" ->
                  /\ ReturnedValue.char = input[ReturnedAt]
                  /\ ReturnedValue.code = Cat(ReturnedAt)
                  /\ call.to = ReturnedAt
             [] ReturnedValue.variant = "Character" /\ ReturnedValue.code = "Space" ->
                  /\ ReturnedValue.char = input[ReturnedAt]
                  /\ \A i \in ReturnedAt..call.to : IsWhitespace(i)
             [] Cat(ReturnedAt) = "Escape" ->
                  /\ ReturnedValue.char = input[ReturnedAt]
                  /\ ReturnedValue.name = SubSeq(input, ReturnedAt + 1, call.to)
                  /\ Len(ReturnedValue.name) > 1 =>
                        \A i \in (ReturnedAt + 1)..call.to : Cat(i) = "Letter"
                  /\ (Cat(ReturnedAt + 1) = "Letter" /\ call.to < Len(input)) =>
                        Cat(call.to + 1) # "Letter"
             [] OTHER ->
                  /\ ReturnedValue = ControlSequence("\\", new_par_control_sequence_name)
                  /\ \A i \in ReturnedAt..call.to : IsWhitespace(i)

\* The example of the lexer's module documentation: a control sequence was
\* returned while 'a' was a Letter, 'a' was then remapped to Space, and the
\* next call dropped the 'a' that directly follows the control sequence.
C7_Witness ==
    /\ Returned
    /\ Len(emitted) = 2
    /\ emitted[1].value = ControlSequence("\\", <<"b">>)
    /\ call.from = 2 /\ call.from < Len(input) /\ input[call.from + 1] = "a"
    /\ get(cat_code_map, "a") = Some("Space")
    /\ ReturnedAt > call.from + 1
    /\ ReturnedValue.variant = "Character" /\ ReturnedValue.code = "Letter"

(***************************************************************************)
(* C9. After Lexer.next returns a ControlSequence token, lexed or the      *)
(* synthesized paragraph token, trim_next_whitespace is true and the next  *)
(* token returned is never Character(_, Space): a whitespace run with      *)
(* fewer than two EndOfLine characters met on the way is consumed and no   *)
(* token comes from it.                                                    *)
(***************************************************************************)
C9_TrimAfterControlSequence ==
    /\ (Returned /\ ReturnedValue.variant = "ControlSequence") =>
            lexer.trim_next_whitespace
    /\ \A i \in 2..Len(emitted) :
          emitted[i - 1].value.variant = "ControlSequence" =>
              ~(emitted[i].value.variant = "Character" /\ emitted[i].value.code = "Space")
    /\ (/\ call.count = 1
        /\ Before # << >>
        /\ Last(Before).value.variant = "ControlSequence"
        /\ call.from < Len(input)
        /\ IsWhitespace(call.from + 1)
        /\ NewLines(call.from + 1, RunEnd(call.from + 1)) < 2) =>
            /\ call.to >= RunEnd(call.from + 1)
            /\ call.result.token # None => ReturnedAt > RunEnd(call.from + 1)

\* A control sequence, then a space, then a letter: the letter is the token
\* that follows the control sequence.
C9_Witness ==
    /\ Returned
    /\ Len(emitted) = 2
    /\ emitted[1].value.variant = "ControlSequence"
    /\ call.trim
    /\ IsWhitespace(call.from + 1)
    /\ RunEnd(call.from + 1) = call.from + 1
    /\ ReturnedAt = call.from + 2
    /\ ReturnedValue = Character("a", "Letter")

(***************************************************************************)
(* C10. Whitespace is kept after a Character token: a maximal run of Space *)
(* and EndOfLine characters that directly follows a character returned as  *)
(* a Character token and holds fewer than two EndOfLine characters yields  *)
(* exactly one token, Character(c, Space) with c the first character of    *)
(* the run.                                                                *)
(***************************************************************************)
C10_SpaceAfterCharacter ==
    (/\ call.count = 1
     /\ Before # << >>
     /\ Last(Before).value.variant = "Character"
     /\ FlatPos(Last(Before).source) = call.from
     /\ call.from < Len(input)
     /\ IsWhitespace(call.from + 1)
     /\ NewLines(call.from + 1, RunEnd(call.from + 1)) < 2) =>
        /\ call.result = Ok(Some(Token(Character(input[call.from + 1], "Space"),
                                       call.result.token[1].source)))
        /\ ReturnedAt = call.from + 1
        /\ call.to = RunEnd(call.from + 1)

\* A letter, then a newline and a space: one token Character('\n', Space).
C10_Witness ==
    /\ Returned
    /\ Len(emitted) = 2
    /\ emitted[1].value = Character("a", "Letter")
    /\ call.from = 1 /\ call.to = 3
    /\ ReturnedValue = Character("\n", "Space")

(***************************************************************************)
(* C5. Every token the expanded stream returns from next or shows by peek  *)
(* is unexpandable when it is returned: a Character, or a ControlSequence  *)
(* whose name the primitive table does not bind; also when the token comes *)
(* from a replacement stream pushed by an earlier expansion.               *)
(***************************************************************************)
C5_ExpandedTokensUnexpandable ==
    (ret.op \in {"next", "peek"} /\ ret.result.token # None) =>
        \/ ret.result.token[1].value.variant = "Character"
        \/ get(driver.primitives, ret.result.token[1].value.name) = None

\* next returned the first letter of Texide while the rest of the macro's
\* replacement is still below it on the pushback stack.
C5_Witness ==
    /\ ret.op = "next"
    /\ ret.result.token = Some(new_letter("T"))
    /\ Len(driver.stack) = 2

(***************************************************************************)
(* C6. Pushback ordering: the unexpanded stream yields the replacement     *)
(* r1..rn of an expansion in that order before every token that was unread *)
(* when the expansion ran (streams pushed earlier, then the root stream):  *)
(* the pushback stack is read last-in first-out.                           *)
(***************************************************************************)
C6_PushbackOrder ==
    ret.expected # None => (ret.result.error = "" /\ ret.read = ret.expected)

\* The letter b of the macro's replacement is read right after the last
\* letter of Texide, whose stream was pushed later.
C6_Witness ==
    /\ ret.op = "unexpanded_next"
    /\ ret.expected = Some(new_letter("b"))
    /\ ret.read = Some(new_letter("b"))
    /\ ret.prev = Some(new_letter("e"))

(***************************************************************************)
(* C8. For the lexer-backed stream, InputModule, a peek that follows a     *)
(* peek with no next in between returns the same token, and a next returns *)
(* the token the preceding peek returned (None for None at end of input).  *)
(***************************************************************************)
C8_InputPeekIdempotent ==
    ret.expected # None => ret.result = Ok(ret.expected[1].token)

\* Two peeks and a next that all returned the same token.
C8_Witness ==
    /\ ret.op = "next"
    /\ ret.expected # None
    /\ ret.expected[1].again
    /\ ret.result.token # None

(***************************************************************************)
(* SpecPar: as SpecLexer, over an alphabet with two Escape characters, the *)
(* backslash and '|', to tell the escape character of a lexed control      *)
(* sequence from the one of the paragraph token.                           *)
(***************************************************************************)
ParAlphabet == {"\\", "|", "a", " ", "\n", "%"}

ParTable == insert(tex_defaults, "|", "Escape")

InitPar ==
    /\ MapIdle
    /\ DriverIdle
    /\ input \in Inputs(ParAlphabet)
    /\ cat_code_map = ParTable
    /\ lexer = Lexer_new(input)
    /\ call = NoCall
    /\ emitted = << >>

NextPar == LexerNext

SpecPar == InitPar /\ [][NextPar]_vars

\* The indices at which a maximal whitespace run starts.
RunStarts ==
    {i \in 1..Len(input) : IsWhitespace(i) /\ (i = 1 \/ ~IsWhitespace(i - 1))}

\* The tokens returned so far whose source lies in the run that starts at i.
TokensIn(i) ==
    {k \in 1..Len(emitted) : FlatPos(emitted[k].source) \in i..RunEnd(i)}

\* The run that starts at i holds two or more EndOfLine characters and the
\* lexer has moved past it.
ParRun(i) ==
    /\ NewLines(i, RunEnd(i)) >= 2
    /\ RunEnd(i) <= Consumed(lexer)

\* The character before index i was read as the escape character of a
\* control sequence, whose name then starts with the character at i.
NameStartsAt(i) ==
    \E k \in 1..Len(emitted) :
        /\ emitted[k].value.variant = "ControlSequence"
        /\ FlatPos(emitted[k].source) = i - 1

OnePar(i) ==
    /\ Cardinality(TokensIn(i)) = 1
    /\ \A k \in TokensIn(i) :
          emitted[k].value = ControlSequence("\\", new_par_control_sequence_name)

(***************************************************************************)
(* C11, as stated.  Every maximal run of Space and EndOfLine characters    *)
(* with two or more EndOfLine characters yields exactly one token, the     *)
(* paragraph control sequence with escape character backslash, and no      *)
(* Space token.  Refuted: the first character of a run that directly       *)
(* follows an escape character is taken as the name of a control sequence. *)
(***************************************************************************)
C11_Original ==
    \A i \in RunStarts : ParRun(i) => OnePar(i)

(***************************************************************************)
(* C11, amended.  A maximal run of Space and EndOfLine characters with two *)
(* or more EndOfLine characters, whose first character is not taken as the *)
(* name of a control sequence, yields exactly one token, the paragraph     *)
(* control sequence ControlSequence('\\', "par"), and no Space token,      *)
(* whatever trim_next_whitespace is and whatever character is an Escape.   *)
(***************************************************************************)
C11_ParagraphRun ==
    \A i \in RunStarts : (ParRun(i) /\ ~NameStartsAt(i)) => OnePar(i)

\* A control sequence lexed with the escape character '|' set the flag, and
\* the run of two newlines after it gave the paragraph token with backslash.
C11_Witness ==
    /\ Returned
    /\ call.trim
    /\ Len(emitted) = 2
    /\ emitted[1].value = ControlSequence("|", <<"a">>)
    /\ ReturnedValue = ControlSequence("\\", new_par_control_sequence_name)
    /\ call.from + 1 \in RunStarts
    /\ ParRun(call.from + 1)

RECURSIVE RawAt(_)
\* The raw lexer after n calls of RawLexer.next on the input.
RawAt(n) ==
    IF n = 0 THEN RawLexer_new(input)
    ELSE RawLexer_next(RawAt(n - 1), cat_code_map).raw_lexer

\* The first raw character examined once the Comment arm has run for the
\* comment character at index c: its index in the input, 0 at end of file.
AfterComment(c) ==
    Let(RawLexer_peek(Lexer_skip_comment(RawAt(c), cat_code_map), cat_code_map),
        LAMBDA p : IF p.token = None THEN 0 ELSE FlatPos(p.token[1].source))

\* The index of the first EndOfLine character after index c, 0 if none.
LineEnd(c) ==
    LET ends == {e \in (c + 1)..Len(input) : Cat(e) = "EndOfLine"}
    IN  IF ends = {} THEN 0 ELSE CHOOSE e \in ends : \A f \in ends : e <= f

CommentChars == {c \in 1..Len(input) : Cat(c) = "Comment"}

\* The last call skipped a comment before the token it returned.
PassedComment ==
    /\ Returned
    /\ \E c \in (call.from + 1)..(ReturnedAt - 1) : Cat(c) = "Comment"

(***************************************************************************)
(* C12, as stated.  On a Comment character the lexer discards characters   *)
(* through and including the next EndOfLine character: the first raw       *)
(* character examined after the comment is the one after that EndOfLine.   *)
(* Refuted: the loop stops at the EndOfLine character, which is examined   *)
(* next.                                                                   *)
(***************************************************************************)
C12_Original ==
    \A c \in CommentChars :
        LineEnd(c) # 0 =>
            AfterComment(c) = (IF LineEnd(c) < Len(input) THEN LineEnd(c) + 1 ELSE 0)

(***************************************************************************)
(* C12, amended.  On a Comment character the lexer discards the characters *)
(* up to, not including, the next EndOfLine character (all of them when    *)
(* there is none), sets trim_next_whitespace and continues: the first raw  *)
(* character examined after the comment is that EndOfLine character, and a *)
(* call that skipped a comment never returns a Space token.                *)
(***************************************************************************)
C12_CommentStopsAtEndOfLine ==
    /\ \A c \in CommentChars : AfterComment(c) = LineEnd(c)
    /\ PassedComment =>
          ~(ReturnedValue.variant = "Character" /\ ReturnedValue.code = "Space")

\* A comment line and an empty line: the EndOfLine that ends the comment is
\* the source of the paragraph token the call returns.
C12_Witness ==
    /\ PassedComment
    /\ call.from = 0
    /\ Cat(1) = "Comment"
    /\ LineEnd(1) = 2
    /\ ReturnedAt = 2
    /\ ReturnedValue = ControlSequence("\\", new_par_control_sequence_name)

(***************************************************************************)
(* SpecComment: as SpecLexer, with the default table, over the characters  *)
(* of the comment tests and inputs long enough to hold them.               *)
(***************************************************************************)
MaxCommentLen == 6

CommentAlphabet == {"a", "%", "\n", " ", "\\"}

InitComment ==
    /\ MapIdle
    /\ DriverIdle
    /\ input \in UNION {[1..n -> CommentAlphabet] : n \in 0..MaxCommentLen}
    /\ cat_code_map = tex_defaults
    /\ lexer = Lexer_new(input)
    /\ call = NoCall
    /\ emitted = << >>

NextComment == LexerNext

SpecComment == InitComment /\ [][NextComment]_vars

\* The values of the tokens returned so far.
EmittedValues == [k \in 1..Len(emitted) |-> emitted[k].value]

\* The input is read to its end: the last call returned None.
AtEnd == call.count = 1 /\ call.result = Ok(None)

par == ControlSequence("\\", new_par_control_sequence_name)

(***************************************************************************)
(* C13. When the EndOfLine that ends a comment starts a whitespace run     *)
(* with at least one more EndOfLine (a comment line, then a blank line),   *)
(* the call that skipped the comment returns the paragraph control         *)
(* sequence, located at that EndOfLine, and consumes the run; the token    *)
(* after it is the first one beyond the run and is not a Space token.      *)
(***************************************************************************)
C13_ParAfterComment ==
    /\ Returned =>
          \A c \in (call.from + 1)..(ReturnedAt - 1) :
              (Cat(c) = "Comment" /\ NewLines(LineEnd(c), RunEnd(LineEnd(c))) >= 2) =>
                  /\ ReturnedValue = par
                  /\ ReturnedAt = LineEnd(c)
                  /\ call.to = RunEnd(LineEnd(c))
    /\ (/\ Returned
        /\ Before # << >>
        /\ Last(Before).value = par
        /\ \E c \in CommentChars : LineEnd(c) = FlatPos(Last(Before).source)) =>
            /\ ReturnedAt > RunEnd(FlatPos(Last(Before).source))
            /\ ~(ReturnedValue.variant = "Character" /\ ReturnedValue.code = "Space")

\* The input of tests::case_12 read to its end: a letter, the paragraph
\* control sequence, a letter.
C13_Witness ==
    /\ AtEnd
    /\ input = <<"a", "%", "\n", "\n", " ", "a">>
    /\ EmittedValues = <<Character("a", "Letter"), par, Character("a", "Letter")>>

\* The last index of what a comment that starts at c silences: the end of
\* the input when no EndOfLine follows, the end of the whitespace run that
\* its EndOfLine starts when the run holds no other EndOfLine, and the
\* character before its EndOfLine otherwise.
SilentEnd(c) ==
    LET e == LineEnd(c)
    IN  IF e = 0 THEN Len(input)
        ELSE IF NewLines(e, RunEnd(e)) < 2 THEN RunEnd(e)
        ELSE e - 1

(***************************************************************************)
(* C14. A comment produces no token: no token returned has its source at   *)
(* the comment character, at a character up to the end of its line, at the *)
(* EndOfLine that ends it or in the whitespace after it that holds no      *)
(* further EndOfLine; so also for comment lines in a row, for a comment    *)
(* that ends the input and after a control sequence.  (A Comment character *)
(* taken as the name of a control sequence starts no comment.)             *)
(***************************************************************************)
C14_CommentYieldsNoToken ==
    \A c \in CommentChars :
        ~NameStartsAt(c) =>
            \A k \in 1..Len(emitted) :
                FlatPos(emitted[k].source) \notin c..SilentEnd(c)

\* The input of tests::case_13 read to its end: the control sequence, then
\* the letter after the comment line, and no Space token.
C14_Witness ==
    /\ AtEnd
    /\ input = <<"\\", "a", " ", "%", "\n", "a">>
    /\ EmittedValues = <<ControlSequence("\\", <<"a">>), Character("a", "Letter")>>

(***************************************************************************)
(* C15. Control-sequence tokenization.  A token located at an Escape       *)
(* character e is ControlSequence(e, name): when the character after e is  *)
(* a Letter, name is the maximal run of Letters and the character that     *)
(* ends the run is not consumed; when it has any other category, name is   *)
(* that single character and exactly that character is consumed.  A call   *)
(* that starts at an Escape character followed by a character returns such *)
(* a token.                                                                *)
(***************************************************************************)
C15_ControlSequence ==
    /\ (Returned /\ Cat(ReturnedAt) = "Escape") =>
          /\ ReturnedValue.variant = "ControlSequence"
          /\ ReturnedValue.char = input[ReturnedAt]
          /\ ReturnedAt < Len(input)
          /\ IF Cat(ReturnedAt + 1) = "Letter"
             THEN /\ ReturnedValue.name = SubSeq(input, ReturnedAt + 1, call.to)
                  /\ \A i \in (ReturnedAt + 1)..call.to : Cat(i) = "Letter"
                  /\ call.to = Len(input) \/ Cat(call.to + 1) # "Letter"
             ELSE /\ ReturnedValue.name = <<input[ReturnedAt + 1]>>
                  /\ call.to = ReturnedAt + 1
    /\ (/\ call.count = 1
        /\ call.from + 1 < Len(input)
        /\ Cat(call.from + 1) = "Escape") =>
            (Returned /\ ReturnedAt = call.from + 1)

\* A name of two letters ended by a character that is not a Letter and is
\* left in the input.
C15_Witness ==
    /\ Returned
    /\ Cat(ReturnedAt) = "Escape"
    /\ ReturnedValue.name = <<"a", "a">>
    /\ call.to < Len(input)
    /\ Cat(call.to + 1) = "BeginGroup"

\* The last call read the character at index i as the leading character of
\* a token: it went as far as i, everything it read before i was dropped,
\* and i is not inside a comment.
Leads(i) ==
    /\ call.count = 1
    /\ call.from < i
    /\ i <= call.to
    /\ ~InComment(i, call.from)
    /\ \A k \in (call.from + 1)..(i - 1) : Skipped(k, call.from)

EscapeAtEnd == Len(input) > 0 /\ Cat(Len(input)) = "Escape"

(***************************************************************************)
(* C16, as stated.  When the last character of the input is an Escape      *)
(* character, the call that consumes it fails with                         *)
(* MalformedControlSequence located at that character.                     *)
(***************************************************************************)
C16_Original ==
    (/\ EscapeAtEnd
     /\ call.count = 1
     /\ call.from < Len(input)
     /\ call.to = Len(input)) =>
        /\ call.result.error = "MalformedControlSequence"
        /\ FlatPos(call.result.at) = Len(input)

(***************************************************************************)
(* C16.  When the last character of the input is an Escape character and   *)
(* the lexer reads it as the leading character of a token, Lexer.next      *)
(* fails with MalformedControlSequence, the error carries the line and     *)
(* column of that character, and no token is returned for it.              *)
(***************************************************************************)
C16_EscapeAtEndOfInput ==
    (EscapeAtEnd /\ Leads(Len(input))) =>
        /\ call.result.error = "MalformedControlSequence"
        /\ call.result.token = None
        /\ FlatPos(call.result.at) = Len(input)
        /\ call.result.at.line.line_number = NewLines(1, Len(input))
        /\ \A k \in 1..Len(emitted) : FlatPos(emitted[k].source) # Len(input)

\* The escape alone on the second line, after a letter and the Space token
\* of the first line's end.
C16_Witness ==
    /\ EscapeAtEnd
    /\ Leads(Len(input))
    /\ call.result.at.line.line_number = 1
    /\ call.result.at.position = 0
    /\ Len(emitted) = 2

(***************************************************************************)
(* C17.  When the lexer reads a character of category Invalid as the       *)
(* leading character of a token, Lexer.next fails with InvalidToken and    *)
(* returns no token for it; the call stops at that character, and no other *)
(* call fails with InvalidToken.                                           *)
(***************************************************************************)
C17_InvalidToken ==
    /\ \A i \in 1..Len(input) :
          (Cat(i) = "Invalid" /\ Leads(i)) =>
              /\ call.result.error = "InvalidToken"
              /\ call.result.token = None
              /\ call.to = i
              /\ \A k \in 1..Len(emitted) : FlatPos(emitted[k].source) # i
    /\ (call.count = 1 /\ call.result.error = "InvalidToken") =>
          (Cat(call.to) = "Invalid" /\ Leads(call.to))

\* The failure comes after a returned token and a dropped character.
C17_Witness ==
    /\ call.count = 1
    /\ call.result.error = "InvalidToken"
    /\ Leads(call.to)
    /\ call.to > call.from + 1
    /\ Len(emitted) >= 1

(***************************************************************************)
(* SpecIf: the driver run to its end over the files `\i X\e Y` and `\i X`, *)
(* where \i, \e, \f, \t and \m are bound to get_if, get_else, get_fi,      *)
(* get_texide and a macro, X is up to MaxSkipped words none of which is    *)
(* \e, and Y is up to MaxKept words.  Every control sequence is followed   *)
(* by a space, which the lexer drops.                                      *)
(***************************************************************************)
MaxSkipped == 2

MaxKept == 2

IfWord(c) == <<"\\", c, " ">>

IfWords ==
    {IfWord("i"), IfWord("e"), IfWord("f"), IfWord("t"), IfWord("m"), <<"a">>}

Texts(words, n) == {Concat(ws) : ws \in UNION {[1..k -> words] : k \in 0..n}}

IfInputs ==
    {IfWord("i") \o x \o rest :
        x \in Texts(IfWords \ {IfWord("e")}, MaxSkipped),
        rest \in {<< >>} \cup {IfWord("e") \o y : y \in Texts(IfWords, MaxKept)}}

InitIf ==
    /\ MapIdle
    /\ input \in IfInputs
    /\ cat_code_map = new
    /\ lexer = Lexer_new(<< >>)
    /\ call = NoCall
    /\ emitted = << >>
    /\ driver = NewDriver(input, tex_defaults)
    /\ ret = NoRet
    /\ output = << >>
    /\ status = "running"
    /\ expect = << >>
    /\ peeked = None
    /\ exit_code = None
    /\ f_arg = None
    /\ f_val = None
    /\ vec_stream = VecStream_new(<< >>)

NextIf == Run

SpecIf == InitIf /\ [][NextIf]_vars

RECURSIVE run(_)
\* The values of the tokens the loop of run prints, up to the end of the
\* input or the first error.
run(d) ==
    Let(ExpandedStream_next(d), LAMBDA r :
        IF r.result.error # "" \/ r.result.token = None
        THEN << >>
        ELSE <<r.result.token[1].value>> \o run(r.driver))

Values(tokens) == [k \in 1..Len(tokens) |-> tokens[k].value]

HasElse == \E k \in 4..(Len(input) - 2) : SubSeq(input, k, k + 2) = IfWord("e")

\* Where the first \e of the file starts, and the texts X and Y around it.
ElseAt ==
    CHOOSE k \in 4..(Len(input) - 2) :
        /\ SubSeq(input, k, k + 2) = IfWord("e")
        /\ \A j \in 4..(k - 1) : SubSeq(input, j, j + 2) # IfWord("e")

SkippedText == SubSeq(input, 4, ElseAt - 1)

KeptText == SubSeq(input, ElseAt + 3, Len(input))

(***************************************************************************)
(* C18.  The expansion of `\if X \else Y` yields exactly the expanded      *)
(* tokens of Y and none of X, also when X contains control sequences bound *)
(* to other expansion primitives: what the run has printed is at every     *)
(* moment the beginning of the expansion of Y alone, all of it once the    *)
(* run is done, and the run does not fail.                                 *)
(***************************************************************************)
C18_IfSkipsToElse ==
    HasElse =>
        Let(run(NewDriver(KeptText, tex_defaults)), LAMBDA kept :
            /\ status # "error"
            /\ Len(output) <= Len(kept)
            /\ Values(output) = SubSeq(kept, 1, Len(output))
            /\ status = "done" => Len(output) = Len(kept))

\* X holds \i, and the run ends having printed a token of X.
C18_Witness ==
    /\ HasElse
    /\ SkippedText = IfWord("i") \o <<"a">>
    /\ KeptText = << >>
    /\ status = "done"
    /\ Values(output) = <<Character("a", "Letter")>>

\* No control sequence after the first \i is bound to a primitive whose id
\* is the Else identity: neither to get_else nor to get_if.
NoElseIdentity ==
    input \in {IfWord("i") \o x :
                  x \in Texts(IfWords \ {IfWord("e"), IfWord("i")}, MaxSkipped)}

(***************************************************************************)
(* C19.  If the unexpanded stream ends before \if finds a control sequence *)
(* bearing the Else identity, the \if call fails with                      *)
(* UnexpectedEndOfInput: the run over such a file ends with that error and *)
(* not normally.                                                           *)
(***************************************************************************)
C19_UnexpectedEndOfInput ==
    (NoElseIdentity /\ status # "running") =>
        /\ status = "error"
        /\ ret.result.error = "UnexpectedEndOfInput"

\* The run over `\i a` is done, with nothing printed and no error.
C19_Witness ==
    /\ input = IfWord("i") \o <<"a">>
    /\ status = "done"
    /\ ret.result = Ok(None)
    /\ output = << >>

(***************************************************************************)
(* SpecIdentity: IfF called again and again on the unexpanded stream of a  *)
(* file of up to MaxIdWords words, with the names i, e and f bound to      *)
(* primitives in every way.  emitted holds the tokens the calls have read, *)
(* and call the part of it the last call read.                             *)
(***************************************************************************)
MaxIdWords == 3

Names == {"i", "e", "f"}

Primitives == {get_if, get_else, get_fi, get_texide, get_macro}

Bindings == [Names -> Primitives]

\* The table after set_expansion_primitive(name, b[name]) for every name.
Bound(b) == insert(insert(insert(new, <<"i">>, b["i"]), <<"e">>, b["e"]), <<"f">>, b["f"])

IdentityInputs == Texts({IfWord(c) : c \in Names} \cup {<<"a">>}, MaxIdWords)

RECURSIVE unexpanded_stream(_)
\* The tokens the unexpanded stream of the driver still holds.
unexpanded_stream(d) ==
    Let(UnexpandedStream_next(d), LAMBDA n :
        IF n.result.error # "" \/ n.result.token = None
        THEN << >>
        ELSE <<n.result.token[1]>> \o unexpanded_stream(n.driver))

InitIdentity ==
    /\ MapIdle
    /\ input \in IdentityInputs
    /\ cat_code_map = new
    /\ lexer = Lexer_new(<< >>)
    /\ call = NoCall
    /\ emitted = << >>
    /\ \E b \in Bindings :
          driver = [NewDriver(input, tex_defaults) EXCEPT !.primitives = Bound(b)]
    /\ ret = NoRet
    /\ output = << >>
    /\ status = "running"
    /\ expect = << >>
    /\ peeked = None
    /\ exit_code = None
    /\ f_arg = None
    /\ f_val = None
    /\ vec_stream = VecStream_new(<< >>)

CallIf ==
    /\ MayRead
    /\ \E r \in {IfF(driver)} :
       \E before \in {unexpanded_stream(driver)} :
       \E after \in {unexpanded_stream(r.driver)} :
           /\ driver' = r.driver
           /\ ret' = [NoRet EXCEPT !.op = "IfF", !.result = r.result]
           /\ emitted' = emitted \o SubSeq(before, 1, Len(before) - Len(after))
           /\ call' = [NoCall EXCEPT !.from = Len(emitted),
                                     !.to = Len(emitted) + Len(before) - Len(after),
                                     !.count = 1]
    /\ UNCHANGED <<input, cat_code_map, lexer, output, status, expect, peeked, exit_code, f_arg, f_val, vec_stream, mapVars>>

NextIdentity == CallIf

SpecIdentity == InitIdentity /\ [][NextIdentity]_vars

\* The primitive bound to the name of a control sequence token, if any.
BoundTo(token) ==
    IF token.value.variant = "ControlSequence"
    THEN get_expansion_primitive(driver, token.value.name)
    ELSE None

(***************************************************************************)
(* C20.  The identity tags of the \else and the \fi primitive differ from  *)
(* each other and from that of every other primitive, and get_if does not  *)
(* bear the Else identity; hence, whatever the names are bound to, a       *)
(* control sequence ends the skip of \if if and only if the primitive      *)
(* bound to its name is the \else primitive: the call passes over no token *)
(* bound to it, and a call whose last token is not bound to it went to the *)
(* end of the input.                                                       *)
(***************************************************************************)
C20_ElseIdentity ==
    /\ get_else.id # None
    /\ get_fi.id # None
    /\ get_else.id # get_fi.id
    /\ \A p \in Primitives \ {get_else} : p.id # get_else.id
    /\ \A p \in Primitives \ {get_fi} : p.id # get_fi.id
    /\ get_if.id # Some("Else")
    /\ (call.count = 1 /\ ret.op = "IfF") =>
          /\ \A k \in (call.from + 1)..(call.to - 1) :
                BoundTo(emitted[k]) # Some(get_else)
          /\ (call.to > call.from /\ BoundTo(emitted[call.to]) # Some(get_else)) =>
                unexpanded_stream(driver) = << >>

\* The call stopped at a control sequence bound to get_if, with the \else
\* of the file still to come.
C20_Witness ==
    /\ call.count = 1
    /\ ret.op = "IfF"
    /\ call.to = call.from + 2
    /\ BoundTo(emitted[call.to]) = Some(get_if)
    /\ \E k \in 1..Len(unexpanded_stream(driver)) :
          BoundTo(unexpanded_stream(driver)[k]) = Some(get_else)

(***************************************************************************)
(* SpecMain: the program from the call of driver::run to the end of the    *)
(* process, over the files of SpecDriver.  Run is one iteration of the     *)
(* loop of driver::run; Exit is the return from driver::run through run of *)
(* main.rs to main and the end of the process.                             *)
(***************************************************************************)
\* What run of main.rs returns once the file is open: driver::run returns
\* the unit value in every case, and run goes on to Ok(()).
main_run == Ok(None)

\* The exit status main ends the process with, given the result of run.
main(r) == IF r.error # "" THEN 1 ELSE 0

Exit ==
    /\ status \in {"done", "error"}
    /\ exit_code = None
    /\ exit_code' = Some(main(main_run))
    /\ UNCHANGED <<driver, ret, output, status, expect, peeked, f_arg, f_val, vec_stream, mapVars, lexerVars>>

NextMain == Run \/ Exit

SpecMain == InitDriver /\ [][NextMain]_vars

(***************************************************************************)
(* C21.  No error is swallowed: when the expanded stream returned an error *)
(* during the run the process ends with exit status 1, and exit status 0   *)
(* occurs only when the whole input was consumed without error.            *)
(***************************************************************************)
C21_NoErrorSwallowed ==
    /\ (status = "error" /\ exit_code # None) => exit_code = Some(1)
    /\ exit_code = Some(0) =>
          /\ status = "done"
          /\ ret.result = Ok(None)

\* The run stopped at a lexer error and the process ended with status 0.
C21_Witness ==
    /\ status = "error"
    /\ ret.result.error = "MalformedControlSequence"
    /\ exit_code = Some(0)

(***************************************************************************)
(* SpecCatCode: the conversions between category codes and integers,       *)
(* applied to every code and to every u8.                                  *)
(***************************************************************************)
InitCatCode ==
    /\ MapIdle
    /\ LexerIdle
    /\ DriverIdle

\* c.int() and CatCode::from_int of it, for a CatCode c.
SerializeCatCode ==
    /\ \E c \in CatCode :
          /\ f_arg' = Some([fn |-> "CatCode", code |-> c])
          /\ f_val' = Some([int |-> CatCode_int(c),
                          back |-> CatCode_from_int(CatCode_int(c))])
    /\ UNCHANGED <<driver, ret, output, status, expect, peeked, exit_code, vec_stream, mapVars, lexerVars>>

\* r.int() and RawCatCode::from_int of it, for a RawCatCode r.
SerializeRawCatCode ==
    /\ \E r \in RawCatCode :
          /\ f_arg' = Some([fn |-> "RawCatCode", code |-> r])
          /\ f_val' = Some([int |-> RawCatCode_int(r),
                          back |-> RawCatCode_from_int(RawCatCode_int(r))])
    /\ UNCHANGED <<driver, ret, output, status, expect, peeked, exit_code, vec_stream, mapVars, lexerVars>>

\* RawCatCode::from_int of any u8, and int() of the code it gives.
Deserialize ==
    /\ \E int \in u8 :
       \E r \in {RawCatCode_from_int(int)} :
          /\ f_arg' = Some([fn |-> "from_int", code |-> int])
          /\ f_val' = Some([int |-> IF r = None THEN None ELSE Some(RawCatCode_int(r[1])),
                          back |-> r])
    /\ UNCHANGED <<driver, ret, output, status, expect, peeked, exit_code, vec_stream, mapVars, lexerVars>>

NextCatCode == SerializeCatCode \/ SerializeRawCatCode \/ Deserialize

SpecCatCode == InitCatCode /\ [][NextCatCode]_vars

(***************************************************************************)
(* C23.  Category round-trip: CatCode::from_int(c.int()) = Some(c) for     *)
(* each of the 11 CatCode values c, RawCatCode::from_int(r.int()) =        *)
(* Some(r) for each of the 16 RawCatCode values r, and int() maps the raw  *)
(* codes one-to-one onto 0..15: no other raw code has the integer of r,    *)
(* and every integer of 0..15 is decoded to a code whose integer it is.    *)
(***************************************************************************)
C23_RoundTrip ==
    f_arg # None =>
        /\ f_arg[1].fn \in {"CatCode", "RawCatCode"} =>
              /\ f_val[1].back = Some(f_arg[1].code)
              /\ f_val[1].int \in 0..15
              /\ \A r \in RawCatCode :
                    RawCatCode_int(r) = f_val[1].int => r = f_arg[1].code
        /\ (f_arg[1].fn = "from_int" /\ f_arg[1].code \in 0..15) =>
              /\ f_val[1].back # None
              /\ f_val[1].back[1] \in RawCatCode
              /\ f_val[1].int = Some(f_arg[1].code)
        /\ Cardinality(CatCode) = 11
        /\ Cardinality(RawCatCode) = 16

\* Superscript goes to 7 and comes back.
C23_Witness ==
    /\ f_arg = Some([fn |-> "CatCode", code |-> "Superscript"])
    /\ f_val = Some([int |-> 7, back |-> Some("Superscript")])

(***************************************************************************)
(* SpecTwice: the expanded stream of the same file in the same initial     *)
(* state read twice: first by the loop of driver::run, then, from a fresh  *)
(* driver, by a consumer that also peeks between its reads.  f_val keeps   *)
(* the tokens and the final result of the first run.                       *)
(***************************************************************************)
Restart ==
    /\ status \in {"done", "error"}
    /\ f_val = None
    /\ f_arg' = Some([fn |-> "run", code |-> input])
    /\ f_val' = Some([output |-> output, result |-> ret.result])
    /\ driver' = NewDriver(input, tex_defaults)
    /\ ret' = NoRet
    /\ output' = << >>
    /\ status' = "running"
    /\ UNCHANGED <<expect, peeked, exit_code, vec_stream, mapVars, lexerVars>>

\* A peek of the second consumer, which stops at an error as run does.
Look ==
    /\ status = "running"
    /\ f_val # None
    /\ MayRead
    /\ \E r \in {ExpandedStream_peek(driver)} :
           /\ driver' = r.driver
           /\ ret' = [NoRet EXCEPT !.op = "peek", !.result = r.result]
           /\ status' = IF r.result.error # "" THEN "error" ELSE "running"
    /\ UNCHANGED <<output, expect, peeked, exit_code, f_arg, f_val, vec_stream, mapVars, lexerVars>>

NextTwice == Run \/ Restart \/ Look

SpecTwice == InitDriver /\ [][NextTwice]_vars

LineOf(i) == 1 + Cardinality({k \in 1..(i - 1) : input[k] = "\n"})

LineStart(i) ==
    CHOOSE k \in 1..i :
        /\ \A j \in k..(i - 1) : input[j] # "\n"
        /\ k = 1 \/ input[k - 1] = "\n"

LineText(i) ==
    LET after == {k \in i..Len(input) : input[k] = "\n"}
    IN  SubSeq(input, LineStart(i),
               IF after = {} THEN Len(input)
               ELSE CHOOSE k \in after : \A j \in after : k <= j)

\* The returned token was lexed at a character the call read, in the line
\* of the input numbered n + base when its source says n.
LexedFromLine(base) ==
    \E i \in (call.from + 1)..call.to :
        LET source == call.result.token[1].source
        IN  /\ LineOf(i) = source.line.line_number + base
            /\ i - LineStart(i) = source.position
            /\ LineText(i) = source.line.content

(***************************************************************************)
(* C24.  Line numbers start at 1 and increase by exactly one on each       *)
(* buffer refill: every token lexed from the n-th line of the input, n     *)
(* counted from 1, carries line_number n, with the text of that line and   *)
(* its column in it.                                                       *)
(***************************************************************************)
C24_LineNumbers == Returned => LexedFromLine(0)

\* A letter on the third line, after a paragraph break, carries the line
\* number 2.
C24_Witness ==
    /\ Returned
    /\ ReturnedValue = Character("a", "Letter")
    /\ LineOf(call.to) = 3
    /\ call.result.token[1].source.line.line_number = 2
    /\ LexedFromLine(1)

(***************************************************************************)
(* SpecTokenEq: the equality of Token applied to every pair of tokens made *)
(* of a few values and a few source locations.                             *)
(***************************************************************************)
EqValues ==
    {Character("a", "Letter"), Character("a", "Other"),
     ControlSequence("\\", <<"a">>), ControlSequence("\\", <<"a", "b">>)}

EqSources ==
    {Source(Line(content, line_number), position) :
        content \in {<<"a", "b">>, <<"b", "a">>},
        line_number \in 0..1,
        position \in 0..1}

EqTokens == {Token(value, source) : value \in EqValues, source \in EqSources}

InitTokenEq ==
    /\ MapIdle
    /\ LexerIdle
    /\ DriverIdle

Compare ==
    /\ \E a \in EqTokens, b \in EqTokens :
          /\ f_arg' = Some([fn |-> "eq", code |-> <<a, b>>])
          /\ f_val' = Some(Token_eq(a, b))
    /\ UNCHANGED <<driver, ret, output, status, expect, peeked, exit_code, vec_stream, mapVars, lexerVars>>

NextTokenEq == Compare

SpecTokenEq == InitTokenEq /\ [][NextTokenEq]_vars

(***************************************************************************)
(* C25.  Token equality is structural over the value only: two tokens      *)
(* compare equal exactly when their values are equal (same variant,        *)
(* character and category, or same escape character and name), also when   *)
(* their source locations differ.                                          *)
(***************************************************************************)
C25_EqualityOverValue ==
    (f_arg # None /\ f_arg[1].fn = "eq") =>
        (f_val[1] <=> f_arg[1].code[1].value = f_arg[1].code[2].value)

\* The same letter at two columns of the same line compares unequal.
C25_Witness ==
    /\ f_arg # None
    /\ f_arg[1].fn = "eq"
    /\ f_arg[1].code[1].value = Character("a", "Letter")
    /\ f_arg[1].code[2].value = Character("a", "Letter")
    /\ f_arg[1].code[1].source.line = f_arg[1].code[2].source.line
    /\ f_arg[1].code[1].source.position # f_arg[1].code[2].source.position
    /\ f_val = Some(FALSE)

\* The token of the control sequence \t, which PrimitiveTable binds to
\* get_texide, and the values of the letters of Texide.
IsTexide(token) == token.value = ControlSequence("\\", <<"t">>)

Texide ==
    [k \in 1..6 |-> Character(<<"T", "e", "x", "i", "d", "e">>[k], "Letter")]

(***************************************************************************)
(* C26.  The \texide primitive reads nothing from its input and returns    *)
(* exactly the six tokens Character('T'), ('e'), ('x'), ('i'), ('d'),      *)
(* ('e'), each of category Letter, in that order: an expand_next that      *)
(* finds the control sequence at the head of the unexpanded stream leaves  *)
(* a stream that yields these six tokens and then everything that          *)
(* followed the control sequence.                                          *)
(***************************************************************************)
C26_Texide ==
    [][(/\ ret'.op = "expand_next"
        /\ unexpanded_stream(driver) # << >>
        /\ IsTexide(Head(unexpanded_stream(driver))))
       => /\ ret'.expanded
          /\ ret'.read = Some(Head(unexpanded_stream(driver)))
          /\ Values(unexpanded_stream(driver'))
                = Texide \o Tail(Values(unexpanded_stream(driver)))]_vars

\* \t was expanded with a letter after it.
C26_Witness ==
    /\ ret.op = "expand_next"
    /\ ret.expanded
    /\ ret.read # None
    /\ IsTexide(ret.read[1])
    /\ Values(unexpanded_stream(driver)) = Texide \o <<Character("a", "Letter")>>

(***************************************************************************)
(* SpecVec: next and peek called in any order on VecStream::new(v), for    *)
(* every vector v of up to MaxVec letters.  f_arg keeps v, output the      *)
(* tokens next has returned, f_val the last call and its result.           *)
(***************************************************************************)
MaxVec == 3

VecInputs ==
    UNION {[1..n -> {new_letter("a"), new_letter("b"), new_letter("c")}] :
              n \in 0..MaxVec}

InitVec ==
    /\ MapIdle
    /\ LexerIdle
    /\ driver = NewDriver(<< >>, new)
    /\ ret = NoRet
    /\ output = << >>
    /\ status = "running"
    /\ expect = << >>
    /\ peeked = None
    /\ exit_code = None
    /\ \E v \in VecInputs :
          /\ f_arg = Some([fn |-> "new", code |-> v])
          /\ vec_stream = VecStream_new(v)
    /\ f_val = Some([fn |-> "new", result |-> Ok(None)])

VecNext ==
    /\ \E n \in {VecStream_next(vec_stream)} :
          /\ vec_stream' = n.stream
          /\ f_val' = Some([fn |-> "next", result |-> n.result])
          /\ output' = IF n.result.token = None THEN output
                       ELSE Append(output, n.result.token[1])
    /\ UNCHANGED <<driver, ret, status, expect, peeked, exit_code, f_arg, mapVars, lexerVars>>

VecPeek ==
    /\ \E p \in {VecStream_peek(vec_stream)} :
          /\ vec_stream' = p.stream
          /\ f_val' = Some([fn |-> "peek", result |-> p.result])
    /\ UNCHANGED <<driver, ret, output, status, expect, peeked, exit_code, f_arg, mapVars, lexerVars>>

NextVec == VecNext \/ VecPeek

SpecVec == InitVec /\ [][NextVec]_vars

\* The vector the stream was made of.
Given == f_arg[1].code

(***************************************************************************)
(* C27.  VecStream::new(v) yields the tokens of v in their original order  *)
(* through next; peek returns the token that the following next returns    *)
(* and removes nothing; and once all tokens are consumed every later next  *)
(* and peek returns None.                                                  *)
(***************************************************************************)
C27_VecStream ==
    /\ Len(output) <= Len(Given)
    /\ output = SubSeq(Given, 1, Len(output))
    /\ VecStream_yields(vec_stream) = SubSeq(Given, Len(output) + 1, Len(Given))
    /\ f_val[1].fn = "next" =>
          \/ f_val[1].result = Ok(None) /\ output = Given
          \/ /\ output # << >>
             /\ f_val[1].result = Ok(Some(Given[Len(output)]))
    /\ f_val[1].fn = "peek" =>
          f_val[1].result =
              IF Len(output) = Len(Given) THEN Ok(None)
              ELSE Ok(Some(Given[Len(output) + 1]))

\* Three different letters were read in order and a peek then gave None.
C27_Witness ==
    /\ Given = <<new_letter("a"), new_letter("b"), new_letter("c")>>
    /\ output = Given
    /\ f_val = Some([fn |-> "peek", result |-> Ok(None)])

(***************************************************************************)
(* SpecImut: prepare_imut_peek, imut_peek and next called separately and   *)
(* in any order on the InputModule, over the inputs of SpecInput.  peeked  *)
(* is set by prepare_imut_peek and cleared by next; ret.expected is its    *)
(* value when the call was made.                                           *)
(***************************************************************************)
InputPrepare ==
    /\ MayRead
    /\ \E p \in {InputModule_prepare_imut_peek(driver.input_module)} :
           /\ driver' = [driver EXCEPT !.input_module = p.stream]
           /\ ret' = [NoRet EXCEPT !.op = "prepare_imut_peek",
                                   !.result = p.result,
                                   !.expected = peeked]
           /\ peeked' = IF p.result.error # "" THEN None
                        ELSE Some([token |-> p.stream.next_token,
                                   again |-> peeked # None])
    /\ UNCHANGED <<output, status, expect, exit_code, f_arg, f_val, vec_stream, mapVars, lexerVars>>

InputImutPeek ==
    /\ ret' = [NoRet EXCEPT
                 !.op = "imut_peek",
                 !.result = InputModule_imut_peek(driver.input_module),
                 !.expected = peeked]
    /\ UNCHANGED <<driver, output, status, expect, peeked, exit_code, f_arg, f_val, vec_stream, mapVars, lexerVars>>

NextImut == InputPrepare \/ InputImutPeek \/ InputNext

SpecImut == InitInput /\ [][NextImut]_vars

(***************************************************************************)
(* C28.  The InputModule, a stream whose prepare_imut_peek is not empty,   *)
(* returns an error from imut_peek whenever prepare_imut_peek has not been *)
(* called since the last consuming operation.                              *)
(***************************************************************************)
C28_UnpreparedPeekFails ==
    (ret.op = "imut_peek" /\ ret.expected = None) => ret.result.error # ""

\* Nothing was prepared or read yet, the file holds the letter a, and
\* imut_peek returned Ok(None).
C28_Witness ==
    /\ input = <<"a">>
    /\ driver = NewDriver(input, TestTable)
    /\ ret.op = "imut_peek"
    /\ ret.expected = None
    /\ ret.result = Ok(None)

\* The positions of the pushback stack whose stream still holds a token.
Live(d) == {k \in 1..Len(d.stack) : d.stack[k].vec # << >>}

\* Every pushed stream and the root stream are exhausted.
Exhausted(d) ==
    /\ Live(d) = {}
    /\ InputModule_next(d.input_module).result = Ok(None)

(***************************************************************************)
(* C29.  In the unexpanded stream an exhausted pushed stream is popped and *)
(* the stream below is consulted, and the root stream is never popped:     *)
(* next takes the token of the topmost pushed stream that still holds one  *)
(* and pops the streams above it, reads the root stream when no pushed     *)
(* stream holds a token, and returns None only when every pushed stream    *)
(* and the root stream are exhausted; so whenever the expanded stream      *)
(* reports end of input the pushback stack is empty.                       *)
(***************************************************************************)
C29_PopExhausted ==
    [][/\ ret'.op = "unexpanded_next" =>
            /\ IF Live(driver) # {}
               THEN \E k \in Live(driver) :
                      /\ \A j \in Live(driver) : j <= k
                      /\ ret'.result = Ok(Some(Last(driver.stack[k].vec)))
                      /\ driver'.stack =
                            [SubSeq(driver.stack, 1, k) EXCEPT ![k].vec = Front(@)]
                      /\ driver'.input_module = driver.input_module
               ELSE \E n \in {InputModule_next(driver.input_module)} :
                      /\ ret'.result = n.result
                      /\ driver'.stack = << >>
            /\ ret'.result = Ok(None) <=> Exhausted(driver)
       /\ \E r \in {ExpandedStream_next(driver)} :
             r.result = Ok(None) => r.driver.stack = << >>]_vars

\* The letter b was read from the stream below the exhausted expansion of
\* \t, which was popped.
C29_Witness ==
    /\ ret.op = "unexpanded_next"
    /\ ret.prev = Some(new_letter("e"))
    /\ ret.read = Some(new_letter("b"))
    /\ driver.stack = <<VecStream_new(<< >>)>>

\* Every character of the input is currently Ignored.
OnlyIgnored == \A i \in 1..Len(input) : Cat(i) = "Ignored"

(***************************************************************************)
(* C30.  A character whose category is Ignored is discarded and produces   *)
(* no token: no token returned by the lexer comes from an Ignored          *)
(* character, and over an input that consists only of Ignored characters   *)
(* every call returns None, so the token sequence is empty.                *)
(***************************************************************************)
C30_Ignored ==
    /\ \A k \in 1..Len(emitted) : Cat(FlatPos(emitted[k].source)) # "Ignored"
    /\ OnlyIgnored =>
          /\ emitted = << >>
          /\ call.count = 1 => /\ call.result = Ok(None)
                               /\ call.to = Len(input)

\* The input ZZZ was read to its end and gave no token.
C30_Witness ==
    /\ input = <<"Z", "Z", "Z">>
    /\ call.count = 1
    /\ call.from = 0
    /\ call.to = 3
    /\ call.result = Ok(None)
    /\ emitted = << >>

\* The token at the head of the unexpanded stream, None at its end.
HeadOf(d) == UnexpandedStream_peek(d).result.token

\* The token is a control sequence the primitive table binds.
Expandable(d, token) ==
    /\ token # None
    /\ token[1].value.variant = "ControlSequence"
    /\ get_expansion_primitive(d, token[1].value.name) # None

(***************************************************************************)
(* C31.  expand_next returns true if and only if it consumed the head      *)
(* control sequence and ran its expansion primitive; when it returns false *)
(* (end of input, head is a Character, or head is a ControlSequence with   *)
(* no expansion primitive bound) it consumes no token: the following next  *)
(* of the unexpanded stream returns the token that was at the head, and no *)
(* stream is pushed.                                                       *)
(***************************************************************************)
C31_ExpandNext ==
    [][(ret'.op = "expand_next" /\ ret'.result.error = "") =>
          /\ ret'.expanded <=> Expandable(driver, HeadOf(driver))
          /\ ret'.expanded =>
                /\ ret'.read = HeadOf(driver)
                /\ driver'.stack # << >>
          /\ ~ret'.expanded =>
                /\ ret'.read = None
                /\ UnexpandedStream_next(driver').result
                      = UnexpandedStream_peek(driver).result
                /\ unexpanded_stream(driver') = unexpanded_stream(driver)
                /\ driver'.input_module
                      = UnexpandedStream_prepare_imut_peek(driver).driver.input_module
                /\ driver'.stack = SubSeq(driver.stack, 1, Len(driver'.stack))]_vars

\* expand_next returned false at a control sequence that names no
\* primitive, which is still the head of the stream.
C31_Witness ==
    /\ ret.op = "expand_next"
    /\ ret.result.error = ""
    /\ ~ret.expanded
    /\ HeadOf(driver) # None
    /\ HeadOf(driver)[1].value = ControlSequence("\\", <<"a">>)

\* The size of the value stack of the key, 0 when the map stores none.
Depth(m, key) ==
    IF key \in DOMAIN m.key_to_value_stack
    THEN Len(m.key_to_value_stack[key])
    ELSE 0

\* The open scopes whose change-set contains the key.
ChangedIn(m, key) ==
    {i \in 1..Len(m.changed_keys_stack) : key \in m.changed_keys_stack[i]}

\* The key has a value set at global scope: by an insert with no scope
\* open or by an insert_global, which the bottom snapshot of ref records.
SetGlobally(key) == ref[1][key] # None

(***************************************************************************)
(* C32.  After every operation sequence (i) every value stack stored in    *)
(* the map is non-empty, and (ii) for every key the depth of its value     *)
(* stack equals the number of open scopes whose change-set contains the    *)
(* key, plus 1 if the key currently has a value set at global scope.       *)
(***************************************************************************)
C32_Invariants ==
    /\ \A k \in DOMAIN map.key_to_value_stack : map.key_to_value_stack[k] # << >>
    /\ \A k \in Keys :
          Depth(map, k) = Cardinality(ChangedIn(map, k))
                             + (IF SetGlobally(k) THEN 1 ELSE 0)

\* An end_scope took the stack of j out of the map while k, set globally
\* and in the scope still open, keeps two values.
C32_Witness ==
    /\ last.op = "end_scope"
    /\ last.ret
    /\ last.before["j"] # None
    /\ "j" \notin DOMAIN map.key_to_value_stack
    /\ Depth(map, "k") = 2
    /\ ChangedIn(map, "k") = {1}
    /\ SetGlobally("k")

\* The token is a control sequence bound to a primitive whose id is the
\* identity of Else.
BearsElse(d, token) ==
    /\ Expandable(d, Some(token))
    /\ get_expansion_primitive(d, token.value.name)[1].id = Some("Else")

\* The token is a control sequence bound to the primitive of \if.
CallsIfF(d, token) ==
    /\ Expandable(d, Some(token))
    /\ get_expansion_primitive(d, token.value.name)[1].call_fn = "IfF"

\* The stream from its first token that bears the identity of Else on.
RECURSIVE FromElse(_, _)
FromElse(d, tokens) ==
    IF tokens = << >> \/ BearsElse(d, Head(tokens)) THEN tokens
    ELSE FromElse(d, Tail(tokens))

(***************************************************************************)
(* C33.  When \if ends its skip at a control sequence bearing the Else     *)
(* identity it only peeks for the tag and does not consume that token: the *)
(* control sequence is still the head of the unexpanded stream after \if   *)
(* returns.                                                                *)
(***************************************************************************)
C33_ElseNotConsumed ==
    [][(/\ ret'.op = "expand_next"
        /\ ret'.expanded
        /\ CallsIfF(driver, ret'.read[1])
        /\ FromElse(driver, Tail(unexpanded_stream(driver))) # << >>)
       => unexpanded_stream(driver')
             = FromElse(driver, Tail(unexpanded_stream(driver)))]_vars

\* \if was expanded over the file \i\e\t and only \t is left in the
\* unexpanded stream.
C33_Witness ==
    /\ input = <<"\\", "i", "\\", "e", "\\", "t">>
    /\ ret.op = "expand_next"
    /\ ret.expanded
    /\ ret.read # None
    /\ ret.read[1].value = ControlSequence("\\", <<"i">>)
    /\ Values(unexpanded_stream(driver)) = <<ControlSequence("\\", <<"t">>)>>

(***************************************************************************)
(* SpecPeek: peek and next of the expanded stream called in any order over *)
(* the inputs of SpecDriver.  peeked is what the peeks since the last next *)
(* returned; ret.expected is its value when the call was made and          *)
(* ret.expanded tells whether the call found an expansion to perform.      *)
(***************************************************************************)
ExpandedPeek ==
    /\ status = "running"
    /\ MayRead
    /\ \E r \in {ExpandedStream_peek(driver)} :
           /\ driver' = r.driver
           /\ ret' = [NoRet EXCEPT !.op = "peek", !.result = r.result,
                                   !.expanded = expand_next(driver).expanded,
                                   !.expected = peeked]
           /\ peeked' = IF r.result.error # "" THEN None
                        ELSE Some([token |-> r.result.token,
                                   again |-> peeked # None])
           /\ status' = IF r.result.error # "" THEN "error" ELSE status
    /\ UNCHANGED <<output, expect, exit_code, f_arg, f_val, vec_stream, mapVars, lexerVars>>

ExpandedNext ==
    /\ status = "running"
    /\ \E r \in {ExpandedStream_next(driver)} :
           /\ driver' = r.driver
           /\ ret' = [NoRet EXCEPT !.op = "next", !.result = r.result,
                                   !.expanded = expand_next(driver).expanded,
                                   !.expected = peeked]
           /\ peeked' = None
           /\ status' = IF r.result.error # "" THEN "error"
                        ELSE IF r.result.token = None THEN "done"
                        ELSE "running"
           /\ output' = IF r.result.token = None THEN output
                        ELSE Append(output, r.result.token[1])
    /\ UNCHANGED <<expect, exit_code, f_arg, f_val, vec_stream, mapVars, lexerVars>>

NextPeek == ExpandedPeek \/ ExpandedNext

SpecPeek == InitDriver /\ [][NextPeek]_vars

(***************************************************************************)
(* C34.  For the expanded stream, peek is idempotent and agrees with next: *)
(* after a peek has performed the pending expansions, further peeks with   *)
(* no intervening mutation perform no further expansion and return the     *)
(* same token, and the following next returns that same token.             *)
(***************************************************************************)
C34_PeekIdempotent ==
    (ret.op \in {"peek", "next"} /\ ret.expected # None) =>
        /\ ret.result = Ok(ret.expected[1].token)
        /\ ~ret.expanded

\* The letter T of the expansion of \t was peeked at twice and then read.
C34_Witness ==
    /\ ret.op = "next"
    /\ ret.expected = Some([token |-> Some(new_letter("T")), again |-> TRUE])
    /\ ret.result = Ok(Some(new_letter("T")))
    /\ output = <<new_letter("T")>>

\* The values Lexer.next returns, call after call, until it returns None or
\* an error.
RECURSIVE LexedValues(_, _)
LexedValues(lx, m) ==
    Let(Lexer_next(lx, m), LAMBDA r :
        IF r.result.error # "" \/ r.result.token = None THEN << >>
        ELSE <<r.result.token[1].value>> \o LexedValues(r.lexer, m))

\* The characters with every character of category Ignored deleted.
RECURSIVE DeleteIgnored(_, _)
DeleteIgnored(chars, m) ==
    IF chars = << >> THEN << >>
    ELSE IF or_default(get(m, Head(chars))) = "Ignored"
    THEN DeleteIgnored(Tail(chars), m)
    ELSE <<Head(chars)>> \o DeleteIgnored(Tail(chars), m)

(***************************************************************************)
(* C35.  Ignored characters are invisible to tokenization: deleting every  *)
(* character of category Ignored from the input does not change the        *)
(* sequence of token values the lexer emits.                               *)
(***************************************************************************)
C35_IgnoredInvisible ==
    AtEnd =>
        LexedValues(Lexer_new(input), cat_code_map)
            = LexedValues(Lexer_new(DeleteIgnored(input, cat_code_map)),
                          cat_code_map)

\* The input "a Z " was read to its end and gave two Space tokens, where
\* "a  " gives one.
C35_Witness ==
    /\ AtEnd
    /\ input = <<"a", " ", "Z", " ">>
    /\ EmittedValues = <<Character("a", "Letter"), Character(" ", "Space"),
                         Character(" ", "Space")>>
    /\ LexedValues(Lexer_new(DeleteIgnored(input, cat_code_map)), cat_code_map)
          = <<Character("a", "Letter"), Character(" ", "Space")>>

(***************************************************************************)
(* SpecLexerFair: SpecLexer with the calls of Lexer.next repeated as long  *)
(* as one is possible, as the loops that read a lexer to its end do.  The  *)
(* condition is the weak fairness of LexerNext with its enabling condition *)
(* written out: a call is possible exactly when MayCall holds, since every *)
(* call moves the raw lexer.                                               *)
(***************************************************************************)
MayCall == lexer.raw_lexer.current_line.line_number < Len(input) + MaxEofReads

LexerNextFair == []<>~MayCall \/ []<><<LexerNext>>_vars

SpecLexerFair == InitLexer /\ [][NextLexer]_vars /\ LexerNextFair

(***************************************************************************)
(* C36.  For every finite input each Lexer.next call terminates, moving    *)
(* past at least one character unless it returns None at the end of the    *)
(* input; repeated calls eventually return None; and once None has been    *)
(* returned every later call returns None as well.                         *)
(***************************************************************************)
C36_LexerTerminates ==
    /\ [](call.count = 1 =>
            IF call.result = Ok(None)
            THEN call.to = Len(input)
            ELSE call.from < call.to /\ call.to <= Len(input))
    /\ <>AtEnd
    /\ [][AtEnd => AtEnd']_vars

\* After an error at the invalid character and the letter a, None was
\* returned, and returned again by a later call.
C36_Witness ==
    /\ AtEnd
    /\ input = <<"!", "a">>
    /\ EmittedValues = <<Character("a", "Letter")>>
    /\ call.from = Len(input)
    /\ lexer.raw_lexer.current_line.line_number >= 2

(***************************************************************************)
(* SpecRun: driver::run with only the primitives of the library bound,     *)
(* one iteration of the loop of ExpansionInputImpl::next at a time:        *)
(* RunExpand is a call of expand_next that returned true or failed,        *)
(* RunRead the call that returned false and the read that follows it.  The *)
(* loops go on while the run has not ended: the fairness condition is the  *)
(* weak fairness of NextRun with its enabling condition, status =          *)
(* "running", written out.                                                 *)
(***************************************************************************)
LibraryTable ==
    insert(insert(insert(insert(new,
        <<"i">>, get_if), <<"e">>, get_else), <<"f">>, get_fi),
        <<"t">>, get_texide)

InitRun ==
    /\ MapIdle
    /\ input \in WordInputs
    /\ cat_code_map = new
    /\ lexer = Lexer_new(<< >>)
    /\ call = NoCall
    /\ emitted = << >>
    /\ driver = [NewDriver(input, tex_defaults) EXCEPT !.primitives = LibraryTable]
    /\ ret = NoRet
    /\ output = << >>
    /\ status = "running"
    /\ expect = << >>
    /\ peeked = None
    /\ exit_code = None
    /\ f_arg = None
    /\ f_val = None
    /\ vec_stream = VecStream_new(<< >>)

RunExpand ==
    /\ status = "running"
    /\ \E e \in {expand_next(driver)} :
           /\ e.expanded \/ e.result.error # ""
           /\ driver' = e.driver
           /\ ret' = [NoRet EXCEPT !.op = "expand_next", !.result = e.result,
                                   !.expanded = e.expanded, !.read = e.head]
           /\ status' = IF e.result.error # "" THEN "error" ELSE "running"
    /\ UNCHANGED <<output, expect, peeked, exit_code, f_arg, f_val, vec_stream, mapVars, lexerVars>>

RunRead ==
    /\ status = "running"
    /\ \E e \in {expand_next(driver)} :
           /\ ~e.expanded
           /\ e.result.error = ""
           /\ \E n \in {UnexpandedStream_next(e.driver)} :
                 /\ driver' = n.driver
                 /\ ret' = [NoRet EXCEPT !.op = "next", !.result = n.result]
                 /\ status' = IF n.result.error # "" THEN "error"
                              ELSE IF n.result.token = None THEN "done"
                              ELSE "running"
                 /\ output' = IF n.result.token = None THEN output
                              ELSE Append(output, n.result.token[1])
    /\ UNCHANGED <<expect, peeked, exit_code, f_arg, f_val, vec_stream, mapVars, lexerVars>>

NextRun == RunExpand \/ RunRead

RunFair == []<>(status # "running") \/ []<><<NextRun>>_vars

SpecRun == InitRun /\ [][NextRun]_vars /\ RunFair

\* The number of tokens of the unexpanded stream that name a primitive.
Expandables(d) ==
    Let(unexpanded_stream(d), LAMBDA u :
        Cardinality({k \in 1..Len(u) : Expandable(d, Some(u[k]))}))

(***************************************************************************)
(* C37.  With only the library primitives bound, driver::run over any      *)
(* finite input terminates: every expansion leaves fewer expandable tokens *)
(* in the unexpanded stream than there were, so the loop around            *)
(* expand_next performs finitely many expansions, and the run reaches the  *)
(* end of the input or an error.                                           *)
(***************************************************************************)
C37_RunTerminates ==
    /\ [][(ret'.op = "expand_next" /\ ret'.expanded)
             => Expandables(driver') < Expandables(driver)]_vars
    /\ <>(status \in {"done", "error"})

\* The run over \t\i\t ended after printing the six letters of one
\* expansion of \t.
C37_Witness ==
    /\ input = <<"\\", "t", "\\", "i", "\\", "t">>
    /\ status = "done"
    /\ Values(output) = Texide

(***************************************************************************)
(* SpecFatal: driver::run over files that hold invalid characters, under   *)
(* the category table of the lexer tests, so that errors occur in the      *)
(* middle of a file.                                                       *)
(***************************************************************************)
FatalWords ==
    {<<"\\", "t">>, <<"\\", "i">>, <<"\\", "e">>, <<"\\">>, <<"a">>, <<"!">>}

FatalInputs ==
    {Concat(ws) : ws \in UNION {[1..n -> FatalWords] : n \in 0..MaxWords}}

InitFatal ==
    /\ MapIdle
    /\ input \in FatalInputs
    /\ cat_code_map = new
    /\ lexer = Lexer_new(<< >>)
    /\ call = NoCall
    /\ emitted = << >>
    /\ driver = NewDriver(input, TestTable)
    /\ ret = NoRet
    /\ output = << >>
    /\ status = "running"
    /\ expect = << >>
    /\ peeked = None
    /\ exit_code = None
    /\ f_arg = None
    /\ f_val = None
    /\ vec_stream = VecStream_new(<< >>)

NextFatal == Run

SpecFatal == InitFatal /\ [][NextFatal]_vars

(***************************************************************************)
(* C38.  Errors are fatal for the run: once next of the expanded stream    *)
(* returns an error the driver stops pulling tokens, so no token is output *)
(* after the first error, and the tokens output before it are the tokens   *)
(* of the expanded stream up to the error, each read from a place of the   *)
(* file the lexer has moved past.                                          *)
(***************************************************************************)
C38_ErrorsFatal ==
    [][/\ (ret'.op = "next" /\ ret'.result.error # "") =>
            /\ status' = "error"
            /\ output' = output
            /\ Values(output') = run(NewDriver(input, TestTable))
            /\ \A k \in 1..Len(output') :
                  output'[k].source # NoSource =>
                      FlatPos(output'[k].source)
                          <= Consumed(driver'.input_module.lexer[1])
       /\ status = "error" => UNCHANGED <<driver, ret, output, status>>]_vars

\* The run over a!a printed the letter a and stopped at the invalid
\* character.
C38_Witness ==
    /\ input = <<"a", "!", "a">>
    /\ status = "error"
    /\ ret.result.error = "InvalidToken"
    /\ Values(output) = <<Character("a", "Letter")>>

\* The whitespace character at index i starts the run of whitespace the
\* call read: it is the first character the call read, or the character
\* before it is no whitespace or lies in a comment.
FirstOfRun(i) ==
    \/ i = call.from + 1
    \/ ~IsWhitespace(i - 1)
    \/ InComment(i - 1, call.from)

(***************************************************************************)
(* C39.  Source provenance: every token the lexer emits carries the line   *)
(* it was read from and the column of the first input character it was     *)
(* built from: for a Character token the character at source.position in   *)
(* source.line.content is the token's character, for a lexed               *)
(* ControlSequence it is the escape character immediately followed by the  *)
(* name, and for a collapsed Space token and the synthesized paragraph     *)
(* token it is the first character of the whitespace run.                  *)
(***************************************************************************)
C39_Provenance ==
    Returned =>
        LET token == call.result.token[1]
            content == token.source.line.content
            p == token.source.position + 1
        IN  /\ LexedFromLine(1)
            /\ p \in 1..Len(content)
            /\ content[p] = input[ReturnedAt]
            /\ CASE token.value = par /\ Cat(ReturnedAt) # "Escape" ->
                      IsWhitespace(ReturnedAt) /\ FirstOfRun(ReturnedAt)
                 [] token.value.variant = "ControlSequence" ->
                      /\ content[p] = token.value.char
                      /\ SubSeq(content, p + 1, p + Len(token.value.name))
                            = token.value.name
                 [] token.value.variant = "Character"
                       /\ token.value.code = "Space" ->
                      /\ content[p] = token.value.char
                      /\ IsWhitespace(ReturnedAt)
                      /\ FirstOfRun(ReturnedAt)
                 [] OTHER -> content[p] = token.value.char

\* A Space token built from a run of two spaces carries the place of the
\* first one.
C39_Witness ==
    /\ Returned
    /\ ReturnedValue = Character(" ", "Space")
    /\ input = <<"a", " ", " ", "a">>
    /\ call.result.token[1].source = Source(Line(input, 0), 1)

====
